---- MODULE Spec2Model ----
(***************************************************************************)
(* cctasks: the persistent task store (internal/data/task.go), the group   *)
(* store (internal/data/group.go), the project directory they read and     *)
(* write, and the App with its task list (internal/model).                 *)
(*                                                                         *)
(* Text that the code takes apart (task ids, file names) is a sequence of  *)
(* one-character strings, so that strconv.Atoi, strconv.Itoa,              *)
(* strings.HasPrefix and strings.HasSuffix are computed, not looked up.    *)
(* Other text (owner, status, group names, ...) is an opaque string; so    *)
(* are subjects and descriptions, except in the project of the task list,  *)
(* where they are searched and are sequences of characters too.            *)
(*                                                                         *)
(* A nil slice and an empty slice are both the empty sequence, a nil map   *)
(* and an empty map are both the empty function: encoding/json writes      *)
(* them differently for slices (null / []) but reads each back as what it  *)
(* was, and no operation of the repository tells the two maps apart.       *)
(***************************************************************************)
EXTENDS Integers, Sequences, FiniteSets, TLC

VARIABLES
    clock,        \* the file system's current time stamp
    dirExists,    \* the project directory exists
    dirMod,       \* modification time of the project directory
    disk,         \* the project directory: entry name -> entry
    backupOK,     \* the backup directory can be created and written
    mkdirOK,      \* the project directory can be created when it is missing
    backup,       \* the backup directory: entry name -> entry
    loaded,       \* a TaskStore has been loaded (App.taskStore # nil)
    Tasks,        \* TaskStore.Tasks
    projectDir,   \* TaskStore.projectDir
    lastModTime,  \* TaskStore.lastModTime
    gLoaded,      \* a GroupStore has been loaded (App.groupStore # nil)
    Groups,       \* GroupStore.Groups
    filePath,     \* GroupStore.filePath
    gLastModTime, \* GroupStore.lastModTime
    issued,       \* ids returned by AddTask on the current store, oldest first
    external,     \* how many times another process has written
    ret,          \* what the last store operation was given and returned
    screen,       \* App.screen
    gret,         \* what the last GroupStore operation was given and returned
    tasksModel,   \* App.tasks, the TasksModel of the task list screen
    groupsModel,  \* App.groups, the GroupsModel of the group management screen
    groupEditModel, \* App.groupEdit, the GroupEditModel of the group dialog
    detailModel,  \* App.detail, the DetailModel of the task detail screen
    editModel     \* App.edit, the EditModel of the task form

fsVars == <<clock, dirExists, dirMod, disk, backupOK, mkdirOK, backup>>
taskVars == <<loaded, Tasks, projectDir, lastModTime>>
groupVars == <<gLoaded, Groups, filePath, gLastModTime>>
screenVars == <<groupsModel, groupEditModel, detailModel, editModel>>
appVars == <<screen, gret, tasksModel, screenVars>>
vars == <<clock, dirExists, dirMod, disk, backupOK, mkdirOK, backup, loaded,
          Tasks,
          projectDir, lastModTime, gLoaded, Groups, filePath, gLastModTime,
          issued, external, ret, screen, gret, tasksModel, groupsModel,
          groupEditModel, detailModel, editModel>>

(***************************************************************************)
(* Bounds of the model.                                                    *)
(***************************************************************************)
MaxClock == 2      \* time stamps run 1..MaxClock
MaxTasks == 3      \* AddTask is taken while the store holds fewer tasks
MaxIssued == 2     \* AddTask is taken while fewer ids were issued
MaxExternal == 1   \* writes of another process

(***************************************************************************)
(* Text helpers.                                                           *)
(***************************************************************************)
DigitChars == <<"0", "1", "2", "3", "4", "5", "6", "7", "8", "9">>

IsDigit(c) == \E d \in 1..10 : DigitChars[d] = c

DigitVal(c) == (CHOOSE d \in 1..10 : DigitChars[d] = c) - 1

HasPrefix(s, p) == Len(s) >= Len(p) /\ SubSeq(s, 1, Len(p)) = p

HasSuffix(s, p) ==
    Len(s) >= Len(p) /\ SubSeq(s, Len(s) - Len(p) + 1, Len(s)) = p

RECURSIVE DigitsVal(_)
DigitsVal(s) ==
    IF s = <<>> THEN 0
    ELSE 10 * DigitsVal(SubSeq(s, 1, Len(s) - 1)) + DigitVal(s[Len(s)])

\* strconv.Atoi on text without a sign: the value, or an error and 0.
Atoi(s) ==
    IF s # <<>> /\ \A i \in 1..Len(s) : IsDigit(s[i])
    THEN [val |-> DigitsVal(s), err |-> FALSE]
    ELSE [val |-> 0, err |-> TRUE]

\* strconv.Itoa on a natural number.
RECURSIVE Itoa(_)
Itoa(n) ==
    IF n < 10 THEN <<DigitChars[n + 1]>>
    ELSE Itoa(n \div 10) \o <<DigitChars[(n % 10) + 1]>>

(***************************************************************************)
(* Values: tasks, groups and their JSON documents.                         *)
(***************************************************************************)
EmptyMap == [k \in {} |-> ""]

Task(id, subject, status, blocks, blockedBy, owner, metadata) ==
    [ID |-> id, Subject |-> subject, Description |-> "", ActiveForm |-> "",
     Status |-> status, Blocks |-> blocks, BlockedBy |-> blockedBy,
     Owner |-> owner, Metadata |-> metadata]

\* The zero value of the Task struct.
ZeroTask == Task(<<>>, "", "", <<>>, <<>>, "", EmptyMap)

TaskGroup(name, order, color) ==
    [Name |-> name, Order |-> order, Color |-> color]

\* A JSON object is a function from the keys it has to their values.
\* File contents are either a JSON object or text that does not parse.
JsonData(obj) == [json |-> TRUE, obj |-> obj]

Garbage == [json |-> FALSE, obj |-> EmptyMap]

Field(obj, key, default) == IF key \in DOMAIN obj THEN obj[key] ELSE default

\* The keys json.MarshalIndent writes for a Task: the omitempty fields are
\* left out when empty.
TaskKeys(task) ==
    {"id", "subject", "description", "status", "blocks", "blockedBy"}
        \cup (IF task.ActiveForm # "" THEN {"activeForm"} ELSE {})
        \cup (IF task.Owner # "" THEN {"owner"} ELSE {})
        \cup (IF DOMAIN task.Metadata # {} THEN {"metadata"} ELSE {})

TaskFieldOf(task, key) ==
    CASE key = "id" -> task.ID
      [] key = "subject" -> task.Subject
      [] key = "description" -> task.Description
      [] key = "activeForm" -> task.ActiveForm
      [] key = "status" -> task.Status
      [] key = "blocks" -> task.Blocks
      [] key = "blockedBy" -> task.BlockedBy
      [] key = "owner" -> task.Owner
      [] key = "metadata" -> task.Metadata

MarshalTask(task) ==
    JsonData([key \in TaskKeys(task) |-> TaskFieldOf(task, key)])

\* json.Unmarshal into a Task: keys the struct does not have are ignored,
\* fields the object does not have keep their zero value.
UnmarshalTask(data) ==
    IF ~data.json THEN [err |-> TRUE, task |-> ZeroTask]
    ELSE [err |-> FALSE,
          task |-> [ID |-> Field(data.obj, "id", <<>>),
                    Subject |-> Field(data.obj, "subject", ""),
                    Description |-> Field(data.obj, "description", ""),
                    ActiveForm |-> Field(data.obj, "activeForm", ""),
                    Status |-> Field(data.obj, "status", ""),
                    Blocks |-> Field(data.obj, "blocks", <<>>),
                    BlockedBy |-> Field(data.obj, "blockedBy", <<>>),
                    Owner |-> Field(data.obj, "owner", ""),
                    Metadata |-> Field(data.obj, "metadata", EmptyMap)]]

MarshalGroup(g) == [name |-> g.Name, order |-> g.Order, color |-> g.Color]

UnmarshalGroup(o) ==
    TaskGroup(Field(o, "name", ""), Field(o, "order", 0), Field(o, "color", ""))

MarshalGroups(groups) ==
    JsonData([groups |-> [i \in 1..Len(groups) |-> MarshalGroup(groups[i])]])

\* json.Unmarshal into a groupsFile.
UnmarshalGroups(data) ==
    IF ~data.json THEN [err |-> TRUE, groups |-> <<>>]
    ELSE [err |-> FALSE,
          groups |-> LET gs == Field(data.obj, "groups", <<>>)
                     IN [i \in 1..Len(gs) |-> UnmarshalGroup(gs[i])]]

(***************************************************************************)
(* The file system: a directory is a function from entry names to entries. *)
(***************************************************************************)
JsonSuffix == <<".", "j", "s", "o", "n">>

GroupsFileName == <<"_", "g">> \o JsonSuffix

TaskFileName(id) == id \o JsonSuffix

ProjectName == "proj"

\* config.GetProjectDir / config.GetGroupsFilePath
GetProjectDir(projectName) == "tasks/" \o projectName

GetGroupsFilePath(projectName) == GetProjectDir(projectName) \o "/_groups.json"

EmptyDir == [n \in {} |-> 0]

FileEntry(data, mtime) == [kind |-> "file", data |-> data, mtime |-> mtime]

DirEntry(mtime) == [kind |-> "dir", data |-> Garbage, mtime |-> mtime]

Put(dir, name, entry) ==
    [n \in DOMAIN dir \cup {name} |-> IF n = name THEN entry ELSE dir[n]]

Remove(dir, name) == [n \in DOMAIN dir \ {name} |-> dir[n]]

IsFile(dir, name) == name \in DOMAIN dir /\ dir[name].kind = "file"

\* The state of the file system that the store operations read and write.
FS(d, dm, b) == [disk |-> d, dirMod |-> dm, backup |-> b]

(***************************************************************************)
(* os.WriteFile and os.Remove on the project directory.                    *)
(***************************************************************************)
\* Writing over a directory fails; rewriting a file leaves the directory's
\* modification time alone, creating one sets it.
WriteFile(fs, name, data, now) ==
    IF name \in DOMAIN fs.disk /\ fs.disk[name].kind = "dir"
    THEN [fs |-> fs, err |-> TRUE]
    ELSE [fs |-> [fs EXCEPT !.disk = Put(fs.disk, name, FileEntry(data, now)),
                            !.dirMod = IF name \in DOMAIN fs.disk
                                       THEN fs.dirMod ELSE now],
          err |-> FALSE]

\* DeleteTask leaving the file where it is.
RemoveFileForgotten(fs, name, now) == fs

\* Removing a missing entry is the IsNotExist error, which DeleteTask
\* ignores; directories of the model are empty, so os.Remove removes them.
RemoveFile(fs, name, now) ==
    IF name \in DOMAIN fs.disk
    THEN [fs EXCEPT !.disk = Remove(fs.disk, name), !.dirMod = now]
    ELSE fs

(***************************************************************************)
(* The backup mirror.                                                      *)
(***************************************************************************)
\* TaskStore.backupTaskData: write unless the mirror already holds the same
\* bytes; every failure is swallowed.
backupTaskData(b, ok, filename, data, now) ==
    IF ~ok THEN b
    ELSE IF IsFile(b, filename) /\ b[filename].data = data THEN b
    ELSE Put(b, filename, FileEntry(data, now))

\* TaskStore.backupFile: copy a project file whose mirror is missing or older.
backupFile(b, ok, d, filename, now) ==
    IF filename \notin DOMAIN d THEN b
    ELSE IF filename \in DOMAIN b /\ ~(d[filename].mtime > b[filename].mtime)
    THEN b
    ELSE IF ~ok THEN b
    ELSE IF d[filename].kind # "file" THEN b
    ELSE Put(b, filename, FileEntry(d[filename].data, now))

RECURSIVE BackupAll(_, _, _, _, _)
BackupAll(b, ok, d, names, now) ==
    IF names = {} THEN b
    ELSE LET n == CHOOSE x \in names : TRUE
         IN BackupAll(backupFile(b, ok, d, n, now), ok, d, names \ {n}, now)

(***************************************************************************)
(* LoadTasks.                                                              *)
(***************************************************************************)
\* LoadTasks without the test for a leading underscore.
IsTaskFileBySuffix(d, name) ==
    /\ d[name].kind # "dir"
    /\ HasSuffix(name, JsonSuffix)

\* The entries LoadTasks reads: not a directory, no leading underscore, a
\* .json suffix.
IsTaskFile(d, name) ==
    /\ d[name].kind # "dir"
    /\ ~HasPrefix(name, <<"_">>)
    /\ HasSuffix(name, JsonSuffix)

TaskFileNames(d) == {n \in DOMAIN d : IsTaskFile(d, n)}

ParsedNames(d) == {n \in TaskFileNames(d) : ~UnmarshalTask(d[n].data).err}

ParsedTask(d, name) == UnmarshalTask(d[name].data).task

\* The sort key of LoadTasks: strconv.Atoi with the error dropped.
IdKey(id) == Atoi(id).val

\* sort.Slice is not stable: every order of the names that is ascending in
\* the key is a possible outcome.
RECURSIVE SortedNameSeqs(_, _)
SortedNameSeqs(d, names) ==
    IF names = {} THEN {<<>>}
    ELSE LET least == {n \in names : \A m \in names :
                          IdKey(ParsedTask(d, n).ID) <= IdKey(ParsedTask(d, m).ID)}
         IN UNION {{<<n>> \o rest : rest \in SortedNameSeqs(d, names \ {n})} :
                   n \in least}

\* The task lists LoadTasks can return for an existing directory.
LoadedTasks(d) ==
    {[i \in 1..Len(p) |-> ParsedTask(d, p[i])] :
        p \in SortedNameSeqs(d, ParsedNames(d))}

(***************************************************************************)
(* LoadGroups.                                                             *)
(***************************************************************************)
IsSortedByOrder(gs) ==
    \A i, j \in 1..Len(gs) : i < j => gs[i].Order <= gs[j].Order

\* The orders in which the groups at the given indices can come out of
\* sort.Slice: ascending in Order, ties in any order.
RECURSIVE SortedIndexSeqs(_, _)
SortedIndexSeqs(gs, idx) ==
    IF idx = {} THEN {<<>>}
    ELSE LET least == {i \in idx : \A j \in idx : gs[i].Order <= gs[j].Order}
         IN UNION {{<<i>> \o rest : rest \in SortedIndexSeqs(gs, idx \ {i})} :
                   i \in least}

\* The group lists sort.Slice by Order can leave behind.
SortedByOrder(gs) ==
    {[k \in 1..Len(gs) |-> gs[p[k]]] : p \in SortedIndexSeqs(gs, 1..Len(gs))}

(***************************************************************************)
(* The in-memory operations of TaskStore.                                  *)
(***************************************************************************)
RECURSIVE MaxNumericID(_, _)
MaxNumericID(tasks, maxID) ==
    IF tasks = <<>> THEN maxID
    ELSE LET id == Atoi(Head(tasks).ID)
         IN MaxNumericID(Tail(tasks),
                         IF ~id.err /\ id.val > maxID THEN id.val ELSE maxID)

\* generateID counting the tasks instead of taking the greatest id.
generateIDByCount(tasks) == Itoa(Len(tasks) + 1)

\* TaskStore.generateID
generateID(tasks) == Itoa(MaxNumericID(tasks, 0) + 1)

removeFromSlice(slice, item) == SelectSeq(slice, LAMBDA s : s # item)

\* The search ending on the last task when no task has the id.
IndexOfIDOrLast(tasks, id) ==
    IF \E i \in 1..Len(tasks) : tasks[i].ID = id
    THEN CHOOSE i \in 1..Len(tasks) :
            tasks[i].ID = id /\ \A j \in 1..(i - 1) : tasks[j].ID # id
    ELSE Len(tasks)

\* The index of the first task with the id, 0 when there is none.
IndexOfID(tasks, id) ==
    IF \E i \in 1..Len(tasks) : tasks[i].ID = id
    THEN CHOOSE i \in 1..Len(tasks) :
            tasks[i].ID = id /\ \A j \in 1..(i - 1) : tasks[j].ID # id
    ELSE 0

\* TaskStore.AddTask, the task it appends.
AddedTask(tasks, task) ==
    [task EXCEPT !.ID = generateID(tasks),
                 !.Status = IF task.Status = "" THEN "pending" ELSE task.Status]

\* UpdateTask keeping the old entry's BlockedBy.
UpdatedTasksMerged(tasks, i, task) ==
    [tasks EXCEPT ![i] = [task EXCEPT !.BlockedBy = tasks[i].BlockedBy]]

\* TaskStore.UpdateTask, the collection after a match at index i.
UpdatedTasks(tasks, i, task) == [tasks EXCEPT ![i] = task]

\* DeleteTask forgetting the BlockedBy lists.
DeletedTasksKeepBlockedBy(tasks, i, id) ==
    LET stripped == [j \in 1..Len(tasks) |->
                        IF j = i THEN tasks[j]
                        ELSE [tasks[j] EXCEPT
                                 !.Blocks = removeFromSlice(@, id)]]
    IN SubSeq(stripped, 1, i - 1) \o SubSeq(stripped, i + 1, Len(stripped))

\* TaskStore.DeleteTask, the collection after a match at index i.
DeletedTasks(tasks, i, id) ==
    LET stripped == [j \in 1..Len(tasks) |->
                        IF j = i THEN tasks[j]
                        ELSE [tasks[j] EXCEPT
                                 !.Blocks = removeFromSlice(@, id),
                                 !.BlockedBy = removeFromSlice(@, id)]]
    IN SubSeq(stripped, 1, i - 1) \o SubSeq(stripped, i + 1, Len(stripped))

\* os.MkdirAll of the project directory failing: a directory that is there
\* needs no creating.
MkdirAllFails(exists, ok) == ~exists /\ ~ok

\* saveTask giving up when the mirror cannot be written.
saveTaskNeedsBackup(fs, ok, task, now) ==
    LET data == MarshalTask(task)
        w == WriteFile(fs, TaskFileName(task.ID), data, now)
    IN IF w.err \/ ~ok THEN [fs |-> fs, err |-> TRUE]
       ELSE [fs |-> [w.fs EXCEPT !.backup =
                        backupTaskData(@, ok, TaskFileName(task.ID), data, now)],
             err |-> FALSE]

\* TaskStore.saveTask
saveTask(fs, ok, task, now) ==
    LET data == MarshalTask(task)
        w == WriteFile(fs, TaskFileName(task.ID), data, now)
    IN IF w.err THEN w
       ELSE [fs |-> [w.fs EXCEPT !.backup =
                        backupTaskData(@, ok, TaskFileName(task.ID), data, now)],
             err |-> FALSE]

\* The loop of Save ending one task early.
RECURSIVE SaveTasksButLast(_, _, _, _)
SaveTasksButLast(fs, ok, tasks, now) ==
    IF Len(tasks) <= 1 THEN [fs |-> fs, err |-> FALSE]
    ELSE LET r == saveTask(fs, ok, Head(tasks), now)
         IN IF r.err THEN r ELSE SaveTasksButLast(r.fs, ok, Tail(tasks), now)

\* The loop of TaskStore.Save: it stops at the first task that fails.
RECURSIVE SaveTasks(_, _, _, _)
SaveTasks(fs, ok, tasks, now) ==
    IF tasks = <<>> THEN [fs |-> fs, err |-> FALSE]
    ELSE LET r == saveTask(fs, ok, Head(tasks), now)
         IN IF r.err THEN r ELSE SaveTasks(r.fs, ok, Tail(tasks), now)

(***************************************************************************)
(* The values the model draws from.                                        *)
(***************************************************************************)
Group(name) == [group |-> name]

\* The ids the callers pass to UpdateTask and DeleteTask.
OpIds == {<<"1">>, <<"2">>, <<"9", "9", "9">>}

\* Project directories a session can find: the scenario of the dependency
\* test, ids whose numeric and textual orders differ next to a non-numeric
\* id, and two ids with the same sort key.
DepsTasks ==
    {Task(<<"1">>, "Task 1", "pending", <<<<"2">>>>, <<>>, "", EmptyMap),
     Task(<<"2">>, "Task 2", "in_progress", <<>>, <<<<"1">>>>, "", EmptyMap)}

MixedTasks ==
    {Task(<<"2">>, "Task 2", "pending", <<>>, <<<<"1", "0">>>>, "bob",
          Group("Backend")),
     Task(<<"1", "0">>, "Task 10", "completed",
          <<<<"2">>, <<"a">>, <<"2">>>>, <<<<"2">>>>, "", EmptyMap),
     Task(<<"a">>, "Task a", "pending", <<>>, <<<<"1", "0">>>>, "", EmptyMap)}

TiedTasks ==
    {Task(<<"a">>, "Task a", "pending", <<>>, <<>>, "", EmptyMap),
     Task(<<"0">>, "Task 0", "completed", <<<<"a">>>>, <<>>, "",
          Group("Backend"))}

RECURSIVE TaskFiles(_, _)
TaskFiles(tasks, now) ==
    IF tasks = {} THEN EmptyDir
    ELSE LET t == CHOOSE x \in tasks : TRUE
         IN Put(TaskFiles(tasks \ {t}, now), TaskFileName(t.ID),
                FileEntry(MarshalTask(t), now))

InitGroups ==
    <<TaskGroup("Frontend", 2, "#3b82f6"), TaskGroup("Backend", 1, "#8b5cf6")>>

\* Entries that are not task files: the groups file, an underscore file and
\* a text file that each hold a task document, a directory with a task
\* file's name, and a task file that does not parse.
OtherEntries(now) ==
    Put(Put(Put(Put(Put(EmptyDir,
        GroupsFileName, FileEntry(MarshalGroups(InitGroups), now)),
        <<"_", "9">> \o JsonSuffix,
            FileEntry(MarshalTask(Task(<<"9">>, "Hidden", "pending", <<>>, <<>>,
                                       "", EmptyMap)), now)),
        <<"8", ".", "t", "x", "t">>,
            FileEntry(MarshalTask(Task(<<"8">>, "Note", "pending", <<>>, <<>>,
                                       "", EmptyMap)), now)),
        <<"1", "1">> \o JsonSuffix, DirEntry(now)),
        <<"7">> \o JsonSuffix, FileEntry(Garbage, now))

Merge(d, e) ==
    [n \in DOMAIN d \cup DOMAIN e |-> IF n \in DOMAIN d THEN d[n] ELSE e[n]]

\* The directory of the tied ids holds a groups file that does not parse.
InitDisks ==
    {TaskFiles(DepsTasks, 1),
     Put(TaskFiles(TiedTasks, 1), GroupsFileName, FileEntry(Garbage, 1)),
     Merge(TaskFiles(MixedTasks, 1), OtherEntries(1))}

\* The task a caller hands to AddTask: AddTask assigns the id whatever id
\* the task comes with, and fills the empty status.
AddInputs ==
    {Task(<<"7">>, "New", "", <<>>, <<>>, "", EmptyMap)}

\* The tasks the callers hand to UpdateTask.
UpdateInputs ==
    {Task(<<"9", "9", "9">>, "Edited", "completed", <<>>, <<>>, "", EmptyMap),
     Task(<<"2">>, "Linked", "in_progress", <<<<"1">>, <<"2">>>>,
                   <<<<"1", "0">>, <<"1">>, <<"1", "0">>>>, "amy",
                   Group("Frontend"))}

\* The task files another process writes into the project directory.
ExternalTasks ==
    {Task(<<"2">>, "External 2", "completed", <<>>, <<>>, "", EmptyMap),
     Task(<<"4">>, "External 4", "pending", <<<<"1">>>>, <<>>, "", EmptyMap)}

Ret(op, id, err, val) == [op |-> op, id |-> id, err |-> err, val |-> val]

\* A GroupStore operation: the name it was given, the boolean or the color it
\* returned, and for a move and for EnsureGroupExists the groups it found.
GRet(op, name, ok, color, before) ==
    [op |-> op, name |-> name, ok |-> ok, color |-> color, before |-> before]

NoGRet == GRet("none", "", FALSE, "", <<>>)

\* GroupsModel{}: the cursor on the first group.
ZeroGroupsModel == [cursor |-> 0, confirmDelete |-> FALSE]

\* GroupEditModel{}: no group under edit.
ZeroGroupEditModel ==
    [group |-> [Name |-> "", Order |-> 0, Color |-> ""], isNew |-> FALSE,
     colorIdx |-> 0, nameInput |-> ""]

\* DetailModel{}: no task shown.  taskStore is the collection of the store
\* the model was handed, stale says that the App has since replaced its own
\* store by another.
ZeroDetailModel ==
    [task |-> ZeroTask, taskStore |-> <<>>, stale |-> FALSE,
     confirmDelete |-> FALSE]

\* EditModel{}: no task in the form.  prevScreen is a.prevScreen as the
\* message that opened the form set it.
ZeroEditModel ==
    [task |-> ZeroTask, isNew |-> FALSE, subjectInput |-> <<>>, statusIdx |-> 0,
     groupIdx |-> 0, groups |-> <<>>, focusIdx |-> 0,
     prevScreen |-> "ScreenProjects"]

\* The TasksModel before anything is typed or toggled.
ZeroTasksModel ==
    [cursor |-> 0, items |-> <<>>, statusFilter |-> "", groupFilter |-> "",
     hideCompleted |-> FALSE, searchInput |-> <<>>, searchActive |-> FALSE,
     collapsedGroups |-> {}, statusChangeMode |-> FALSE]

(***************************************************************************)
(* Initial state: no project is open.                                      *)
(***************************************************************************)
Init ==
    /\ clock = 1
    /\ dirExists \in BOOLEAN
    /\ disk \in (IF dirExists THEN InitDisks ELSE {EmptyDir})
    /\ dirMod = IF dirExists THEN 1 ELSE 0
    /\ backupOK \in BOOLEAN
    /\ mkdirOK = TRUE
    /\ backup = EmptyDir
    /\ loaded = FALSE
    /\ Tasks = <<>>
    /\ projectDir = ""
    /\ lastModTime = 0
    /\ gLoaded = FALSE
    /\ Groups = <<>>
    /\ filePath = ""
    /\ gLastModTime = 0
    /\ issued = <<>>
    /\ external = 0
    /\ ret = Ret("none", <<>>, "", <<>>)
    /\ screen = "ScreenProjects"
    /\ gret = NoGRet
    /\ tasksModel = ZeroTasksModel
    /\ groupsModel = ZeroGroupsModel
    /\ groupEditModel = ZeroGroupEditModel
    /\ detailModel = ZeroDetailModel
    /\ editModel = ZeroEditModel

(***************************************************************************)
(* Actions.                                                                *)
(***************************************************************************)
\* data.LoadTasks(projectName); the caller keeps the store it returns.
LoadTasks ==
    /\ IF ~dirExists
       THEN /\ Tasks' = <<>>
            /\ lastModTime' = 0
            /\ backup' = backup
       ELSE /\ Tasks' \in LoadedTasks(disk)
            /\ lastModTime' = dirMod
            /\ backup' = BackupAll(backup, backupOK, disk, TaskFileNames(disk),
                                   clock)
    /\ loaded' = TRUE
    /\ projectDir' = GetProjectDir(ProjectName)
    /\ issued' = <<>>
    /\ ret' = Ret("LoadTasks", <<>>, "", <<>>)
    /\ UNCHANGED appVars
    /\ UNCHANGED <<clock, dirExists, dirMod, disk, backupOK, mkdirOK,
                   groupVars, external>>

\* LoadGroups treating a missing groups file as an error.
LoadGroupsStrict ==
    /\ IF ~dirExists \/ ~IsFile(disk, GroupsFileName)
          \/ UnmarshalGroups(disk[GroupsFileName].data).err
       THEN /\ gLoaded' = FALSE
            /\ Groups' = <<>>
            /\ filePath' = ""
            /\ gLastModTime' = 0
            /\ ret' = Ret("LoadGroups", <<>>, "error", <<>>)
       ELSE /\ gLoaded' = TRUE
            /\ Groups' \in
                  SortedByOrder(UnmarshalGroups(disk[GroupsFileName].data).groups)
            /\ filePath' = GetGroupsFilePath(ProjectName)
            /\ gLastModTime' = disk[GroupsFileName].mtime
            /\ ret' = Ret("LoadGroups", <<>>, "", <<>>)
    /\ UNCHANGED appVars
    /\ UNCHANGED <<fsVars, taskVars, issued, external>>

\* data.LoadGroups(projectName); on an error the caller is left with nil.
LoadGroups ==
    /\ IF ~dirExists \/ GroupsFileName \notin DOMAIN disk
       THEN /\ gLoaded' = TRUE
            /\ Groups' = <<>>
            /\ filePath' = GetGroupsFilePath(ProjectName)
            /\ gLastModTime' = 0
            /\ ret' = Ret("LoadGroups", <<>>, "", <<>>)
       ELSE LET e == disk[GroupsFileName]
                u == UnmarshalGroups(e.data)
            IN IF e.kind # "file" \/ u.err
               THEN /\ gLoaded' = FALSE
                    /\ Groups' = <<>>
                    /\ filePath' = ""
                    /\ gLastModTime' = 0
                    /\ ret' = Ret("LoadGroups", <<>>, "error", <<>>)
               ELSE /\ gLoaded' = TRUE
                    /\ Groups' \in SortedByOrder(u.groups)
                    /\ filePath' = GetGroupsFilePath(ProjectName)
                    /\ gLastModTime' = e.mtime
                    /\ ret' = Ret("LoadGroups", <<>>, "", <<>>)
    /\ UNCHANGED appVars
    /\ UNCHANGED <<fsVars, taskVars, issued, external>>

\* TaskStore.AddTask(task)
AddTask(task) ==
    /\ loaded
    /\ Len(Tasks) < MaxTasks
    /\ Len(issued) < MaxIssued
    /\ LET t == AddedTask(Tasks, task)
       IN /\ Tasks' = Append(Tasks, t)
          /\ issued' = Append(issued, t.ID)
          /\ ret' = Ret("AddTask", <<>>, "", t.ID)
    /\ UNCHANGED appVars
    /\ UNCHANGED <<fsVars, loaded, projectDir, lastModTime, groupVars,
                   external>>

\* TaskStore.UpdateTask(task)
UpdateTask(task) ==
    /\ loaded
    /\ LET i == IndexOfID(Tasks, task.ID)
       IN IF i # 0
          THEN /\ Tasks' = UpdatedTasks(Tasks, i, task)
               /\ ret' = Ret("UpdateTask", task.ID, "", <<>>)
          ELSE /\ Tasks' = Tasks
               /\ ret' = Ret("UpdateTask", task.ID, "not found", <<>>)
    /\ UNCHANGED appVars
    /\ UNCHANGED <<fsVars, loaded, projectDir, lastModTime, groupVars, issued,
                   external>>

\* TaskStore.DeleteTask(id)
DeleteTask(id) ==
    /\ loaded
    /\ LET i == IndexOfID(Tasks, id)
       IN IF i # 0
          THEN LET fs == RemoveFile(FS(disk, dirMod, backup), TaskFileName(id),
                                    clock)
               IN /\ Tasks' = DeletedTasks(Tasks, i, id)
                  /\ disk' = fs.disk
                  /\ dirMod' = fs.dirMod
                  /\ ret' = Ret("DeleteTask", id, "", <<>>)
          ELSE /\ Tasks' = Tasks
               /\ disk' = disk
               /\ dirMod' = dirMod
               /\ ret' = Ret("DeleteTask", id, "not found", <<>>)
    /\ UNCHANGED appVars
    /\ UNCHANGED <<clock, dirExists, backupOK, mkdirOK, backup, loaded,
                   projectDir,
                   lastModTime, groupVars, issued, external>>

\* TaskStore.Save()
Save ==
    /\ loaded
    /\ IF MkdirAllFails(dirExists, mkdirOK)
       THEN /\ UNCHANGED <<dirExists, disk, dirMod, backup>>
            /\ ret' = Ret("Save", <<>>, "mkdir failed", <<>>)
       ELSE LET r == SaveTasks(FS(disk, IF dirExists THEN dirMod ELSE clock,
                                  backup), backupOK, Tasks, clock)
            IN /\ dirExists' = TRUE
               /\ disk' = r.fs.disk
               /\ dirMod' = r.fs.dirMod
               /\ backup' = r.fs.backup
               /\ ret' = Ret("Save", <<>>,
                             IF r.err THEN "write failed" ELSE "", <<>>)
    /\ UNCHANGED appVars
    /\ UNCHANGED <<clock, backupOK, mkdirOK, taskVars, groupVars, issued,
                   external>>

\* Time passes.
Tick ==
    /\ clock < MaxClock
    /\ clock' = clock + 1
    /\ UNCHANGED appVars
    /\ UNCHANGED <<dirExists, dirMod, disk, backupOK, mkdirOK, backup, taskVars,
                   groupVars, issued, external, ret>>

\* Another process writes a task file into the project directory.
ExternalWrite(task) ==
    /\ external < MaxExternal
    /\ external' = external + 1
    /\ LET w == WriteFile(FS(disk, IF dirExists THEN dirMod ELSE clock, backup),
                          TaskFileName(task.ID), MarshalTask(task), clock)
       IN /\ ~w.err
          /\ disk' = w.fs.disk
          /\ dirMod' = w.fs.dirMod
    /\ dirExists' = TRUE
    /\ UNCHANGED appVars
    /\ UNCHANGED <<clock, backupOK, mkdirOK, backup, taskVars, groupVars,
                   issued, ret>>

\* Another process removes a task file from the project directory.
ExternalRemove(name) ==
    /\ external < MaxExternal
    /\ external' = external + 1
    /\ dirExists
    /\ name \in TaskFileNames(disk)
    /\ disk' = Remove(disk, name)
    /\ dirMod' = clock
    /\ UNCHANGED appVars
    /\ UNCHANGED <<clock, dirExists, backupOK, mkdirOK, backup, taskVars,
                   groupVars,
                   issued, ret>>

(***************************************************************************)
(* Spec: one session working on its task store, alone on the directory.    *)
(***************************************************************************)
Next ==
    \/ LoadTasks
    \/ \E task \in AddInputs : AddTask(task)
    \/ \E task \in UpdateInputs : UpdateTask(task)
    \/ \E id \in OpIds : DeleteTask(id)
    \/ Save

Spec == Init /\ [][Next]_vars

(***************************************************************************)
(* EnvSpec: the session next to another process writing the same           *)
(* directory, with both stores loaded; the session edits and deletes the   *)
(* tasks it finds.                                                         *)
(***************************************************************************)
EnvUpdateInputs ==
    {Task(<<"2">>, "Edited", "completed", <<>>, <<>>, "", EmptyMap)}

EnvOpIds == {<<"1">>}

EnvNext ==
    \/ LoadTasks
    \/ LoadGroups
    \/ \E task \in EnvUpdateInputs : UpdateTask(task)
    \/ \E id \in EnvOpIds : DeleteTask(id)
    \/ Save
    \/ \E task \in ExternalTasks : ExternalWrite(task)
    \/ \E name \in DOMAIN disk : ExternalRemove(name)

EnvSpec == Init /\ [][EnvNext]_vars

(***************************************************************************)
(* TimeSpec: the session's loads and saves next to time passing and        *)
(* another process writing task files, for the modification times the      *)
(* reload test and the backup compare.                                     *)
(***************************************************************************)
TimeNext ==
    \/ LoadTasks
    \/ \E task \in EnvUpdateInputs : UpdateTask(task)
    \/ Save
    \/ Tick
    \/ \E task \in ExternalTasks : ExternalWrite(task)

TimeSpec == Init /\ [][TimeNext]_vars

(***************************************************************************)
(* The reload test of the two stores.                                      *)
(***************************************************************************)
\* NeedsReload answering true for a directory that is not older.
NeedsReloadNotBefore(path, last, exists, mod) ==
    IF path = "" THEN FALSE
    ELSE IF ~exists THEN FALSE
    ELSE mod >= last

\* TaskStore.NeedsReload: path and last are the store's projectDir and
\* lastModTime, exists and mod what os.Stat finds for the directory.
NeedsReload(path, last, exists, mod) ==
    IF path = "" THEN FALSE
    ELSE IF ~exists THEN FALSE
    ELSE mod > last

\* GroupStore.NeedsReload: os.Stat of the groups file in directory d.
GroupNeedsReload(path, last, exists, d) ==
    IF path = "" THEN FALSE
    ELSE IF ~exists \/ GroupsFileName \notin DOMAIN d THEN FALSE
    ELSE d[GroupsFileName].mtime > last

(***************************************************************************)
(* SaveSpec: one session saving its store into a project directory that    *)
(* may be missing and impossible to create, may hold a directory under a   *)
(* task file's name, and may have a mirror that cannot be written.         *)
(***************************************************************************)
SaveInit ==
    /\ clock = 1
    /\ dirExists \in BOOLEAN
    /\ disk \in (IF dirExists
                 THEN {TaskFiles(DepsTasks, 1),
                       Merge(TaskFiles(MixedTasks, 1), OtherEntries(1))}
                 ELSE {EmptyDir})
    /\ dirMod = IF dirExists THEN 1 ELSE 0
    /\ backupOK \in BOOLEAN
    /\ mkdirOK \in BOOLEAN
    /\ backup = EmptyDir
    /\ loaded = FALSE
    /\ Tasks = <<>>
    /\ projectDir = ""
    /\ lastModTime = 0
    /\ gLoaded = FALSE
    /\ Groups = <<>>
    /\ filePath = ""
    /\ gLastModTime = 0
    /\ issued = <<>>
    /\ external = 0
    /\ ret = Ret("none", <<>>, "", <<>>)
    /\ screen = "ScreenProjects"
    /\ gret = NoGRet
    /\ tasksModel = ZeroTasksModel
    /\ groupsModel = ZeroGroupsModel
    /\ groupEditModel = ZeroGroupEditModel
    /\ detailModel = ZeroDetailModel
    /\ editModel = ZeroEditModel

SaveNext ==
    \/ LoadTasks
    \/ \E task \in AddInputs : AddTask(task)
    \/ \E id \in OpIds : DeleteTask(id)
    \/ Save

SaveSpec == SaveInit /\ [][SaveNext]_vars

(***************************************************************************)
(* The stores data.LoadTasks and data.LoadGroups hand to the App.          *)
(***************************************************************************)
\* data.LoadTasks: the stores it can return, each with the mirror it leaves.
StoresOfLoadTasks(d, exists, dm, b, ok, now) ==
    IF ~exists
    THEN {[Tasks |-> <<>>, lastModTime |-> 0, backup |-> b]}
    ELSE {[Tasks |-> l, lastModTime |-> dm,
           backup |-> BackupAll(b, ok, d, TaskFileNames(d), now)] :
              l \in LoadedTasks(d)}

\* data.LoadGroups: the stores it can return; nil is true for the nil store
\* that comes with an error.
StoresOfLoadGroups(d, exists) ==
    IF ~exists \/ GroupsFileName \notin DOMAIN d
    THEN {[nil |-> FALSE, Groups |-> <<>>,
           filePath |-> GetGroupsFilePath(ProjectName), lastModTime |-> 0]}
    ELSE LET e == d[GroupsFileName]
             u == UnmarshalGroups(e.data)
         IN IF e.kind # "file" \/ u.err
            THEN {[nil |-> TRUE, Groups |-> <<>>, filePath |-> "",
                   lastModTime |-> 0]}
            ELSE {[nil |-> FALSE, Groups |-> gs,
                   filePath |-> GetGroupsFilePath(ProjectName),
                   lastModTime |-> e.mtime] : gs \in SortedByOrder(u.groups)}

\* a.taskStore, _ = data.LoadTasks(a.projectName)
SetTaskStore(t) ==
    /\ loaded' = TRUE
    /\ Tasks' = t.Tasks
    /\ projectDir' = GetProjectDir(ProjectName)
    /\ lastModTime' = t.lastModTime
    /\ backup' = t.backup
    /\ issued' = <<>>

\* a.groupStore, _ = data.LoadGroups(a.projectName)
SetGroupStore(g) ==
    /\ gLoaded' = ~g.nil
    /\ Groups' = g.Groups
    /\ filePath' = g.filePath
    /\ gLastModTime' = g.lastModTime

(***************************************************************************)
(* Text: subjects, descriptions and queries that are searched are          *)
(* sequences of one-character strings.                                     *)
(***************************************************************************)
UpperChars ==
    <<"A", "B", "C", "D", "E", "F", "G", "H", "I", "J", "K", "L", "M",
      "N", "O", "P", "Q", "R", "S", "T", "U", "V", "W", "X", "Y", "Z">>

LowerChars ==
    <<"a", "b", "c", "d", "e", "f", "g", "h", "i", "j", "k", "l", "m",
      "n", "o", "p", "q", "r", "s", "t", "u", "v", "w", "x", "y", "z">>

\* strings.ToLower
ToLower(s) ==
    [i \in 1..Len(s) |->
        IF \E k \in 1..26 : UpperChars[k] = s[i]
        THEN LowerChars[CHOOSE k \in 1..26 : UpperChars[k] = s[i]]
        ELSE s[i]]

\* strings.Contains
Contains(s, substr) ==
    \E i \in 0..(Len(s) - Len(substr)) : SubSeq(s, i + 1, i + Len(substr)) = substr

\* A task with a subject and a description that can be searched.
TextTask(id, subject, description, status, metadata) ==
    [Task(id, subject, status, <<>>, <<>>, "", metadata)
        EXCEPT !.Description = description]

(***************************************************************************)
(* The queries of the task store.                                          *)
(***************************************************************************)
\* The search comparing the subject and the description as they are.
SearchedTasksCaseSensitive(tasks, query) ==
    IF query = <<>> THEN tasks
    ELSE SelectSeq(tasks,
            LAMBDA task : \/ Contains(task.Subject, ToLower(query))
                          \/ Contains(task.Description, ToLower(query)))

\* TaskStore.SearchTasks, the tasks it returns.
SearchedTasks(tasks, query) ==
    IF query = <<>> THEN tasks
    ELSE SelectSeq(tasks,
            LAMBDA task : \/ Contains(ToLower(task.Subject), ToLower(query))
                          \/ Contains(ToLower(task.Description), ToLower(query)))

\* The filter taking the empty status for a status like the others.
TasksByStatusOrAll(tasks, status) ==
    IF status = "all" THEN tasks
    ELSE SelectSeq(tasks, LAMBDA task : task.Status = status)

\* TaskStore.GetTasksByStatus, the tasks it returns.
TasksByStatus(tasks, status) ==
    IF status = "" \/ status = "all" THEN tasks
    ELSE SelectSeq(tasks, LAMBDA task : task.Status = status)

\* What a query of the store was asked and what it returned.
QRet(op, arg, val) ==
    [op |-> op, id |-> <<>>, err |-> "", val |-> val, arg |-> arg]

\* TaskStore.SearchTasks(query)
SearchTasks(query) ==
    /\ loaded
    /\ ret' = QRet("SearchTasks", query, SearchedTasks(Tasks, query))
    /\ UNCHANGED <<fsVars, taskVars, groupVars, issued, external, appVars>>

\* TaskStore.GetTasksByStatus(status)
GetTasksByStatus(status) ==
    /\ loaded
    /\ ret' = QRet("GetTasksByStatus", status, TasksByStatus(Tasks, status))
    /\ UNCHANGED <<fsVars, taskVars, groupVars, issued, external, appVars>>

(***************************************************************************)
(* The project of the task list: five tasks, two of them in one registered *)
(* group, one in the other, one in a group that is not registered and one  *)
(* without a group, next to a groups file that lists Frontend before       *)
(* Backend.                                                                *)
(***************************************************************************)
ListTasks ==
    {TextTask(<<"1">>, <<"F", "i", "x", " ", "B", "u", "g">>,
              <<"l", "o", "g", "i", "n">>, "pending", Group("Backend")),
     TextTask(<<"2">>, <<"d", "o", "c", "s">>,
              <<"F", "I", "X", " ", "i", "t">>, "completed", EmptyMap),
     TextTask(<<"3">>, <<"S", "h", "i", "p">>, <<>>, "in_progress",
              Group("Ghost")),
     TextTask(<<"4">>, <<"d", "e", "b", "u", "g">>, <<>>, "completed",
              Group("Backend")),
     TextTask(<<"5">>, <<"M", "e", "n", "u">>, <<>>, "pending",
              Group("Frontend"))}

ListGroups ==
    <<TaskGroup("Frontend", 1, "#3b82f6"), TaskGroup("Backend", 2, "#8b5cf6")>>

ListDisk ==
    Put(TaskFiles(ListTasks, 1), GroupsFileName,
        FileEntry(MarshalGroups(ListGroups), 1))

\* The texts typed into a search: nothing, a word in small and in capital
\* letters, part of a word, and a word no task has.
Queries ==
    {<<>>, <<"f", "i", "x">>, <<"F", "I", "X">>, <<"b", "u", "g">>,
     <<"z", "z">>}

Statuses == {"", "all", "pending", "in_progress", "completed", "blocked"}

(***************************************************************************)
(* QuerySpec: the store of the task list's project, loaded, asked and      *)
(* changed in memory and on disk.                                          *)
(***************************************************************************)
QueryInit ==
    /\ clock = 1
    /\ dirExists = TRUE
    /\ disk = ListDisk
    /\ dirMod = 1
    /\ backupOK = FALSE
    /\ mkdirOK = TRUE
    /\ backup = EmptyDir
    /\ loaded = FALSE
    /\ Tasks = <<>>
    /\ projectDir = ""
    /\ lastModTime = 0
    /\ gLoaded = FALSE
    /\ Groups = <<>>
    /\ filePath = ""
    /\ gLastModTime = 0
    /\ issued = <<>>
    /\ external = 0
    /\ ret = Ret("none", <<>>, "", <<>>)
    /\ screen = "ScreenProjects"
    /\ gret = NoGRet
    /\ tasksModel = ZeroTasksModel
    /\ groupsModel = ZeroGroupsModel
    /\ groupEditModel = ZeroGroupEditModel
    /\ detailModel = ZeroDetailModel
    /\ editModel = ZeroEditModel

QueryNext ==
    \/ LoadTasks
    \/ \E query \in Queries : SearchTasks(query)
    \/ \E status \in Statuses : GetTasksByStatus(status)
    \/ \E task \in ListTasks : DeleteTask(task.ID)

QuerySpec == QueryInit /\ [][QueryNext]_vars

(***************************************************************************)
(* TasksModel (internal/model/tasks.go): the task list screen.  The model  *)
(* reads the stores of the App, which are the stores it was handed.        *)
(***************************************************************************)
\* data.GetTaskGroup
GetTaskGroup(task) ==
    IF "group" \in DOMAIN task.Metadata THEN task.Metadata["group"] ELSE ""

\* GroupStore.GetGroupNames
GetGroupNames(groups) == [i \in 1..Len(groups) |-> groups[i].Name]

\* taskListItem: a group header, and the row of a task (which has a task and
\* no group name).
GroupItem(groupName) ==
    [isGroup |-> TRUE, groupName |-> groupName, task |-> ZeroTask]

TaskItem(task) == [isGroup |-> FALSE, groupName |-> "", task |-> task]

\* The filters without the one that hides the completed tasks.
PassesFiltersCompletedToo(m, task) ==
    /\ m.statusFilter = "" \/ task.Status = m.statusFilter
    /\ m.groupFilter = "" \/ GetTaskGroup(task) = m.groupFilter
    /\ \/ m.searchInput = <<>>
       \/ Contains(ToLower(task.Subject), ToLower(m.searchInput))
       \/ Contains(ToLower(task.Description), ToLower(m.searchInput))

\* rebuildItems, the first loop: the task gets past every filter.
PassesFilters(m, task) ==
    /\ m.statusFilter = "" \/ task.Status = m.statusFilter
    /\ ~(m.hideCompleted /\ task.Status = "completed")
    /\ m.groupFilter = "" \/ GetTaskGroup(task) = m.groupFilter
    /\ \/ m.searchInput = <<>>
       \/ Contains(ToLower(task.Subject), ToLower(m.searchInput))
       \/ Contains(ToLower(task.Description), ToLower(m.searchInput))

\* A task without a group going under the header of no name.
BucketOfAsIs(task) == GetTaskGroup(task)

\* rebuildItems, the second loop: the key of groupedTasks a task goes under.
BucketOf(task) ==
    IF GetTaskGroup(task) = "" THEN "Uncategorized" ELSE GetTaskGroup(task)

\* addGroupToItems showing the tasks of a collapsed group too.
GroupRowsExpanded(m, groupName, tasks) ==
    <<GroupItem(groupName)>> \o [i \in 1..Len(tasks) |-> TaskItem(tasks[i])]

\* addGroupToItems: the rows a group adds.
GroupRows(m, groupName, tasks) ==
    <<GroupItem(groupName)>>
       \o (IF groupName \in m.collapsedGroups THEN <<>>
           ELSE [i \in 1..Len(tasks) |-> TaskItem(tasks[i])])

\* rebuildItems, the loop over groupOrder: the rows of the registered groups
\* that have tasks.
RECURSIVE OrderedRows(_, _, _)
OrderedRows(m, groupOrder, filtered) ==
    IF groupOrder = <<>> THEN <<>>
    ELSE LET groupName == Head(groupOrder)
             tasks == SelectSeq(filtered, LAMBDA t : BucketOf(t) = groupName)
         IN (IF tasks # <<>> THEN GroupRows(m, groupName, tasks) ELSE <<>>)
               \o OrderedRows(m, Tail(groupOrder), filtered)

\* The groups that are not registered sharing the Uncategorized header.
RemainingRowsUnderOne(m, names, filtered) ==
    IF names = {} THEN {<<>>}
    ELSE {GroupRows(m, "Uncategorized",
                    SelectSeq(filtered, LAMBDA t : BucketOf(t) \in names))}

\* rebuildItems, the loop over the rest of the map: the rows of the groups
\* in names, in each order a range over a map can take.
RECURSIVE RemainingRows(_, _, _)
RemainingRows(m, names, filtered) ==
    IF names = {} THEN {<<>>}
    ELSE UNION {{GroupRows(m, n, SelectSeq(filtered,
                                           LAMBDA t : BucketOf(t) = n))
                    \o rest : rest \in RemainingRows(m, names \ {n}, filtered)} :
                n \in names}

\* The cursor left where it is.
ClampCursorNot(cursor, items) == cursor

\* The last lines of rebuildItems and of ReloadData.
ClampCursor(cursor, items) ==
    LET c == IF cursor >= Len(items) THEN Len(items) - 1 ELSE cursor
    IN IF c < 0 THEN 0 ELSE c

\* rebuildItems starting with the groups that are not registered.
rebuildItemsRestFirst(m, tasks, groups) ==
    LET filtered == SelectSeq(tasks, LAMBDA t : PassesFilters(m, t))
        groupOrder == GetGroupNames(groups)
        keys == {BucketOf(filtered[i]) : i \in 1..Len(filtered)}
        processed == {groupOrder[i] : i \in 1..Len(groupOrder)}
    IN {[m EXCEPT !.items = rest \o OrderedRows(m, groupOrder, filtered),
                  !.cursor = ClampCursor(m.cursor,
                                rest \o OrderedRows(m, groupOrder, filtered))] :
           rest \in RemainingRows(m, keys \ processed, filtered)}

\* TasksModel.rebuildItems: the models it can leave.
rebuildItems(m, tasks, groups) ==
    LET filtered == SelectSeq(tasks, LAMBDA t : PassesFilters(m, t))
        groupOrder == GetGroupNames(groups)
        keys == {BucketOf(filtered[i]) : i \in 1..Len(filtered)}
        processed == {groupOrder[i] : i \in 1..Len(groupOrder)}
    IN {[m EXCEPT !.items = OrderedRows(m, groupOrder, filtered) \o rest,
                  !.cursor = ClampCursor(m.cursor,
                                OrderedRows(m, groupOrder, filtered) \o rest)] :
           rest \in RemainingRows(m, keys \ processed, filtered)}

\* NewTasksModel
NewTasksModel(tasks, groups) == rebuildItems(ZeroTasksModel, tasks, groups)

\* The index of the first row of the task with the id, 0 when it has none.
RowOfTask(items, id) ==
    IF \E i \in 1..Len(items) : ~items[i].isGroup /\ items[i].task.ID = id
    THEN CHOOSE i \in 1..Len(items) :
            /\ ~items[i].isGroup /\ items[i].task.ID = id
            /\ \A j \in 1..(i - 1) : items[j].isGroup \/ items[j].task.ID # id
    ELSE 0

\* ReloadData keeping the number of the row.
ReloadDataByPosition(m, tasks, groups) == rebuildItems(m, tasks, groups)

\* TasksModel.ReloadData: the models it can leave.  The cursor of the model
\* counts from 0, the rows of the sequence from 1.
ReloadData(m, tasks, groups) ==
    LET currentTaskID ==
           IF m.cursor < Len(m.items) /\ ~m.items[m.cursor + 1].isGroup
           THEN m.items[m.cursor + 1].task.ID ELSE <<>>
    IN {IF currentTaskID # <<>> /\ RowOfTask(r.items, currentTaskID) # 0
        THEN [r EXCEPT !.cursor = RowOfTask(r.items, currentTaskID) - 1]
        ELSE r : r \in rebuildItems(m, tasks, groups)}

\* TasksModel.cycleStatusFilter
StatusCycle == <<"", "pending", "in_progress", "completed">>

cycleStatusFilter(m) ==
    IF \E i \in 1..4 : StatusCycle[i] = m.statusFilter
    THEN LET i == CHOOSE k \in 1..4 : StatusCycle[k] = m.statusFilter
         IN [m EXCEPT !.statusFilter = StatusCycle[(i % 4) + 1]]
    ELSE [m EXCEPT !.statusFilter = ""]

\* TasksModel.cycleGroupFilter
cycleGroupFilter(m, groups) ==
    LET names == <<"">> \o GetGroupNames(groups) \o <<"Uncategorized">>
    IN IF \E i \in 1..Len(names) : names[i] = m.groupFilter
       THEN LET i == CHOOSE k \in 1..Len(names) :
                        /\ names[k] = m.groupFilter
                        /\ \A j \in 1..(k - 1) : names[j] # m.groupFilter
            IN [m EXCEPT !.groupFilter = names[(i % Len(names)) + 1]]
       ELSE [m EXCEPT !.groupFilter = ""]

\* What TasksModel.Update works on besides the model: the tasks of the store
\* and the project directory with its mirror.
StoreState(tasks, groups, d, exists, dm, b) ==
    [Tasks |-> tasks, Groups |-> groups, disk |-> d, dirExists |-> exists,
     dirMod |-> dm, backup |-> b]

\* setCurrentTaskStatus leaving the store unsaved.
setCurrentTaskStatusUnsaved(m, status, st) ==
    IF m.items = <<>> \/ m.items[m.cursor + 1].isGroup
    THEN {[m |-> m, st |-> st]}
    ELSE LET task == [m.items[m.cursor + 1].task EXCEPT !.Status = status]
             i == IndexOfID(st.Tasks, task.ID)
             tasks == IF i # 0 THEN UpdatedTasks(st.Tasks, i, task)
                      ELSE st.Tasks
         IN {[m |-> n, st |-> [st EXCEPT !.Tasks = tasks]] :
                n \in rebuildItems(m, tasks, st.Groups)}

\* TasksModel.setCurrentTaskStatus: UpdateTask, Save (its error is dropped)
\* and rebuildItems.
setCurrentTaskStatus(m, status, st) ==
    IF m.items = <<>> \/ m.items[m.cursor + 1].isGroup
    THEN {[m |-> m, st |-> st]}
    ELSE LET task == [m.items[m.cursor + 1].task EXCEPT !.Status = status]
             i == IndexOfID(st.Tasks, task.ID)
             tasks == IF i # 0 THEN UpdatedTasks(st.Tasks, i, task)
                      ELSE st.Tasks
             fails == MkdirAllFails(st.dirExists, mkdirOK)
             r == IF fails
                  THEN [fs |-> FS(st.disk, st.dirMod, st.backup), err |-> TRUE]
                  ELSE SaveTasks(FS(st.disk,
                                    IF st.dirExists THEN st.dirMod ELSE clock,
                                    st.backup), backupOK, tasks, clock)
         IN {[m |-> n,
              st |-> StoreState(tasks, st.Groups, r.fs.disk, ~fails,
                                r.fs.dirMod, r.fs.backup)] :
                n \in rebuildItems(m, tasks, st.Groups)}

\* textinput.Model: what a key leaves of the text.  A key of one character
\* is typed, up to CharLimit characters; the other keys of the model leave
\* the text as it is.
CharLimit == 50

TypedChars == {"U", "L"}

searchInputUpdate(text, key) ==
    IF key \in TypedChars /\ Len(text) < CharLimit THEN Append(text, key)
    ELSE IF key = "backspace" /\ text # <<>> THEN SubSeq(text, 1, Len(text) - 1)
    ELSE text

\* The status a key of the status change mode stands for, "" for none.
StatusOfKey(key) ==
    CASE key \in {"1", "p"} -> "pending"
      [] key \in {"2", "i"} -> "in_progress"
      [] key \in {"3", "c"} -> "completed"
      [] OTHER -> ""

\* The model with the same items and cursor.
Same(m, st) == {[m |-> m, st |-> st]}

\* The model after rebuildItems.
Rebuilt(m, st) ==
    {[m |-> n, st |-> st] : n \in rebuildItems(m, st.Tasks, st.Groups)}

\* TasksModel.Update for a key: the models and stores it can leave.
TasksModelUpdate(m, key, st) ==
    IF m.searchActive
    THEN IF key = "esc" THEN Same([m EXCEPT !.searchActive = FALSE], st)
         ELSE IF key = "enter"
         THEN Rebuilt([m EXCEPT !.searchActive = FALSE], st)
         ELSE Rebuilt([m EXCEPT !.searchInput = searchInputUpdate(@, key)], st)
    ELSE IF m.statusChangeMode
    THEN IF StatusOfKey(key) # ""
         THEN {[m |-> [r.m EXCEPT !.statusChangeMode = FALSE], st |-> r.st] :
                  r \in setCurrentTaskStatus(m, StatusOfKey(key), st)}
         ELSE IF key = "esc" THEN Same([m EXCEPT !.statusChangeMode = FALSE], st)
         ELSE Same(m, st)
    ELSE CASE key \in {"up", "k"} ->
                 Same(IF m.cursor > 0 THEN [m EXCEPT !.cursor = @ - 1] ELSE m, st)
           [] key \in {"down", "j"} ->
                 Same(IF m.cursor < Len(m.items) - 1
                      THEN [m EXCEPT !.cursor = @ + 1] ELSE m, st)
           [] key = "home" -> Same([m EXCEPT !.cursor = 0], st)
           [] key = "end" ->
                 Same(IF Len(m.items) > 0
                      THEN [m EXCEPT !.cursor = Len(m.items) - 1] ELSE m, st)
           [] key = "enter" ->
                 IF Len(m.items) > 0 /\ m.items[m.cursor + 1].isGroup
                 THEN LET g == m.items[m.cursor + 1].groupName
                      IN Rebuilt([m EXCEPT !.collapsedGroups =
                                     IF g \in @ THEN @ \ {g} ELSE @ \cup {g}],
                                 st)
                 ELSE Same(m, st)
           [] key = "s" ->
                 Same(IF Len(m.items) > 0 /\ ~m.items[m.cursor + 1].isGroup
                      THEN [m EXCEPT !.statusChangeMode = TRUE] ELSE m, st)
           [] key = "f" -> Rebuilt(cycleStatusFilter(m), st)
           [] key = "g" -> Rebuilt(cycleGroupFilter(m, st.Groups), st)
           [] key = "h" -> Rebuilt([m EXCEPT !.hideCompleted = ~@], st)
           [] key = "/" -> Same([m EXCEPT !.searchActive = TRUE], st)
           [] OTHER -> Same(m, st)

(***************************************************************************)
(* App.Update.  Of the sub-models of the screens the TasksModel is kept;   *)
(* the others (cursors, inputs, the task or group under edit) and           *)
(* prevScreen are left out.  A project, once selected, keeps its name, so   *)
(* a.taskStore # nil implies a.projectName # "".  The groups file that the  *)
(* App loads again parses, so a.groupStore is not nil on the task list.     *)
(***************************************************************************)
\* The screens that the auto-reload leaves alone.
EditScreens == {"ScreenGroups", "ScreenGroupEdit", "ScreenEdit"}

\* The keys of the model: one the App answers itself, and a cursor key,
\* which every screen answers without touching a store.
Keys == {"ctrl+l", "end"}

\* The auto-reload running on the edit screens as well.
AutoReloadsEverywhere(key, scr) ==
    /\ key # "ctrl+l"
    /\ loaded
    /\ \/ NeedsReload(projectDir, lastModTime, dirExists, dirMod)
       \/ gLoaded /\ GroupNeedsReload(filePath, gLastModTime, dirExists, disk)

\* case tea.KeyMsg: whether the stores are loaded again before the screen
\* gets the key.
AutoReloads(key, scr) ==
    /\ key # "ctrl+l"
    /\ loaded
    /\ scr \notin EditScreens
    /\ \/ NeedsReload(projectDir, lastModTime, dirExists, dirMod)
       \/ gLoaded /\ GroupNeedsReload(filePath, gLastModTime, dirExists, disk)

\* The stores the App holds.
CurrentTaskStore ==
    [Tasks |-> Tasks, lastModTime |-> lastModTime, backup |-> backup]

CurrentGroupStore ==
    [nil |-> ~gLoaded, Groups |-> Groups, filePath |-> filePath,
     lastModTime |-> gLastModTime]

\* case tea.KeyMsg: the auto-reload, which puts a new TasksModel on the task
\* list, and then the key handed to the screen; of the screens the task
\* list is the one whose Update is modelled.
KeyMsg(key) ==
    LET reload == AutoReloads(key, screen)
    IN \E t \in (IF reload
                 THEN StoresOfLoadTasks(disk, dirExists, dirMod, backup,
                                        backupOK, clock)
                 ELSE {CurrentTaskStore}),
          g \in (IF reload THEN StoresOfLoadGroups(disk, dirExists)
                 ELSE {CurrentGroupStore}) :
          \E m \in (IF reload /\ screen = "ScreenTasks"
                    THEN NewTasksModel(t.Tasks, g.Groups)
                    ELSE {tasksModel}) :
             \E u \in (IF screen = "ScreenTasks" /\ key # "ctrl+l"
                       THEN TasksModelUpdate(m, key,
                               StoreState(t.Tasks, g.Groups, disk, dirExists,
                                          dirMod, t.backup))
                       ELSE Same(m, StoreState(t.Tasks, g.Groups, disk,
                                               dirExists, dirMod, t.backup))) :
                /\ Tasks' = u.st.Tasks
                /\ lastModTime' = t.lastModTime
                /\ projectDir' = IF reload THEN GetProjectDir(ProjectName)
                                 ELSE projectDir
                /\ issued' = IF reload THEN <<>> ELSE issued
                /\ SetGroupStore(g)
                /\ disk' = u.st.disk
                /\ dirExists' = u.st.dirExists
                /\ dirMod' = u.st.dirMod
                /\ backup' = u.st.backup
                /\ tasksModel' = u.m
                /\ ret' = Ret(IF reload THEN "KeyMsg reload" ELSE "KeyMsg",
                              <<>>, "", <<>>)
                /\ UNCHANGED <<clock, backupOK, mkdirOK, loaded, external,
                               screen, gret, screenVars>>

\* case SelectProjectMsg
SelectProjectMsg ==
    /\ screen = "ScreenProjects"
    /\ \E t \in StoresOfLoadTasks(disk, dirExists, dirMod, backup, backupOK,
                                  clock),
          g \in StoresOfLoadGroups(disk, dirExists) :
          /\ SetTaskStore(t)
          /\ SetGroupStore(g)
          /\ tasksModel' \in IF g.nil THEN {tasksModel}
                             ELSE NewTasksModel(t.Tasks, g.Groups)
          /\ screen' = IF g.nil THEN screen ELSE "ScreenTasks"
          /\ ret' = Ret("SelectProjectMsg", <<>>,
                        IF g.nil THEN "error" ELSE "", <<>>)
    /\ UNCHANGED <<clock, dirExists, dirMod, disk, backupOK, mkdirOK,
                   external, gret, screenVars>>

\* The messages that only change the screen: ViewTaskMsg, NewTaskMsg,
\* ManageGroupsMsg, EditGroupMsg, CancelGroupEditMsg and BackToProjectsMsg,
\* each sent by the screen named first.
ScreenChanges ==
    {<<"ScreenTasks", "ScreenDetail">>, <<"ScreenTasks", "ScreenEdit">>,
     <<"ScreenTasks", "ScreenGroups">>, <<"ScreenGroups", "ScreenGroupEdit">>,
     <<"ScreenGroupEdit", "ScreenGroups">>, <<"ScreenTasks", "ScreenProjects">>}

\* The cursor of the task list is on the row of a task.
OnTaskRow(m) == m.cursor < Len(m.items) /\ ~m.items[m.cursor + 1].isGroup

\* The task list sends ViewTaskMsg for the task under the cursor.
ChangeScreenMsg(from, to) ==
    /\ screen = from
    /\ from = "ScreenTasks" /\ to = "ScreenDetail" => OnTaskRow(tasksModel)
    /\ screen' = to
    /\ UNCHANGED <<fsVars, taskVars, groupVars, issued, external, ret, gret,
                   tasksModel, screenVars>>

\* case BackToTasksMsg, sent by the detail screen
BackToTasksMsg ==
    /\ screen = "ScreenDetail"
    /\ \E t \in StoresOfLoadTasks(disk, dirExists, dirMod, backup, backupOK,
                                  clock),
          g \in StoresOfLoadGroups(disk, dirExists) :
          /\ SetTaskStore(t)
          /\ SetGroupStore(g)
          /\ tasksModel' \in ReloadData(tasksModel, t.Tasks, g.Groups)
    /\ screen' = "ScreenTasks"
    /\ ret' = Ret("BackToTasksMsg", <<>>, "", <<>>)
    /\ UNCHANGED <<clock, dirExists, dirMod, disk, backupOK, mkdirOK,
                   external, gret, screenVars>>

\* case BackFromGroupsMsg, sent by the groups screen
BackFromGroupsMsg ==
    /\ screen = "ScreenGroups"
    /\ ~groupsModel.confirmDelete
    /\ \E g \in StoresOfLoadGroups(disk, dirExists) :
          /\ SetGroupStore(g)
          /\ tasksModel' \in NewTasksModel(Tasks, g.Groups)
    /\ screen' = "ScreenTasks"
    /\ ret' = Ret("BackFromGroupsMsg", <<>>, "", <<>>)
    /\ UNCHANGED <<fsVars, taskVars, issued, external, gret, screenVars>>

\* The groups another process writes into the groups file.
ExternalGroups == <<TaskGroup("Ops", 3, "#ef4444")>>

\* Another process writes the groups file.
ExternalWriteGroups ==
    /\ external < MaxExternal
    /\ external' = external + 1
    /\ LET w == WriteFile(FS(disk, IF dirExists THEN dirMod ELSE clock, backup),
                          GroupsFileName, MarshalGroups(ExternalGroups), clock)
       IN /\ ~w.err
          /\ disk' = w.fs.disk
          /\ dirMod' = w.fs.dirMod
    /\ dirExists' = TRUE
    /\ UNCHANGED <<clock, backupOK, mkdirOK, backup, taskVars, groupVars,
                   issued, ret,
                   appVars>>

(***************************************************************************)
(* ListSpec: the task list of the project of five tasks under the keys     *)
(* that move the cursor, fold a group, set the filters and type a search.  *)
(***************************************************************************)
MaxSearch == 1

ListInit == QueryInit

\* The keys of the search mode, where a key of one character is typed.
SearchKeys == TypedChars \cup {"backspace", "esc", "enter"}

ListKeys == {"up", "down", "enter", "f", "g", "h", "/"}

\* The keys the task list is given: the text of a search stays within
\* MaxSearch characters.
KeysOf(m, keys) ==
    IF m.searchActive
    THEN {key \in SearchKeys :
             key \in TypedChars => Len(m.searchInput) < MaxSearch}
    ELSE keys

ListNext ==
    \/ SelectProjectMsg
    \/ \E key \in KeysOf(tasksModel, ListKeys) : KeyMsg(key)

ListSpec == ListInit /\ [][ListNext]_vars

(***************************************************************************)
(* SessionSpec: the task list and the detail screen of the project of five *)
(* tasks, with the cursor moved, a group folded, completed tasks hidden    *)
(* and a status changed, while another process writes task files.          *)
(***************************************************************************)
SessionInit ==
    /\ clock = 2
    /\ dirExists = TRUE
    /\ disk = ListDisk
    /\ dirMod = 1
    /\ backupOK = FALSE
    /\ mkdirOK = TRUE
    /\ backup = EmptyDir
    /\ loaded = FALSE
    /\ Tasks = <<>>
    /\ projectDir = ""
    /\ lastModTime = 0
    /\ gLoaded = FALSE
    /\ Groups = <<>>
    /\ filePath = ""
    /\ gLastModTime = 0
    /\ issued = <<>>
    /\ external = 0
    /\ ret = Ret("none", <<>>, "", <<>>)
    /\ screen = "ScreenProjects"
    /\ gret = NoGRet
    /\ tasksModel = ZeroTasksModel
    /\ groupsModel = ZeroGroupsModel
    /\ groupEditModel = ZeroGroupEditModel
    /\ detailModel = ZeroDetailModel
    /\ editModel = ZeroEditModel

\* The task files another process writes: a new task of the first group,
\* and the first task of the store completed.
SessionExternalTasks ==
    {TextTask(<<"6">>, <<"N", "e", "w">>, <<>>, "pending", Group("Frontend")),
     TextTask(<<"1">>, <<"F", "i", "x", " ", "B", "u", "g">>,
              <<"l", "o", "g", "i", "n">>, "completed", Group("Backend"))}

\* The keys of the session; x is a key no screen has a binding for.
SessionKeys == {"up", "down", "h", "x"}

StatusKeys == {"3", "esc"}

\* The groups the user folds and the task whose status the user changes.
FoldedGroups == {"Frontend", "Backend"}

StatusChangedIds == {<<"3">>}

\* The keys the session is given on a screen: enter on the header of a
\* group the user folds, s on the task whose status the user changes.
SessionKeysOf(scr, m) ==
    IF scr = "ScreenTasks"
    THEN IF m.statusChangeMode THEN StatusKeys
         ELSE SessionKeys
                 \cup (IF /\ m.cursor < Len(m.items)
                          /\ m.items[m.cursor + 1].isGroup
                          /\ m.items[m.cursor + 1].groupName \in FoldedGroups
                       THEN {"enter"} ELSE {})
                 \cup (IF /\ OnTaskRow(m)
                          /\ m.items[m.cursor + 1].task.ID \in StatusChangedIds
                       THEN {"s"} ELSE {})
    ELSE IF scr = "ScreenDetail" THEN {"x"} ELSE {}

SessionNext ==
    \/ SelectProjectMsg
    \/ \E key \in SessionKeysOf(screen, tasksModel) : KeyMsg(key)
    \/ ChangeScreenMsg("ScreenTasks", "ScreenDetail")
    \/ BackToTasksMsg
    \/ \E task \in SessionExternalTasks : ExternalWrite(task)

SessionSpec == SessionInit /\ [][SessionNext]_vars

(***************************************************************************)
(* AppSpec: the App moving between its screens and getting keys, next to   *)
(* time passing and another process writing the project directory.         *)
(***************************************************************************)
AppNext ==
    \/ SelectProjectMsg
    \/ \E key \in Keys : KeyMsg(key)
    \/ \E c \in ScreenChanges : ChangeScreenMsg(c[1], c[2])
    \/ BackToTasksMsg
    \/ BackFromGroupsMsg
    \/ Tick
    \/ \E task \in ExternalTasks : ExternalWrite(task)
    \/ ExternalWriteGroups

AppSpec == Init /\ [][AppNext]_vars

(***************************************************************************)
(* The in-memory operations of GroupStore.                                 *)
(***************************************************************************)
DefaultColors ==
    <<"#8b5cf6", "#3b82f6", "#10b981", "#f59e0b", "#ef4444", "#ec4899",
      "#06b6d4", "#84cc16">>

\* The color GetGroupColor returns for a name the store does not have.
UnknownGroupColor == "#6b7280"

\* The loop of AddGroup over the orders, started with maxOrder.
RECURSIVE maxOrder(_, _)
maxOrder(groups, m) ==
    IF groups = <<>> THEN m
    ELSE maxOrder(Tail(groups),
                  IF Head(groups).Order > m THEN Head(groups).Order ELSE m)

\* The palette read without wrapping around.
DefaultColorClamped(n) ==
    DefaultColors[IF n < Len(DefaultColors) THEN n + 1 ELSE Len(DefaultColors)]

\* DefaultColors[n % len(DefaultColors)]
DefaultColor(n) == DefaultColors[(n % Len(DefaultColors)) + 1]

\* AddGroup keeping an order the caller passed in.
AddedGroupKeepsOrder(groups, group) ==
    [group EXCEPT
        !.Order = IF group.Order # 0 THEN group.Order
                  ELSE maxOrder(groups, 0) + 1,
        !.Color = IF group.Color = "" THEN DefaultColor(Len(groups))
                  ELSE group.Color]

\* GroupStore.AddGroup, the group it appends.
AddedGroup(groups, group) ==
    [group EXCEPT
        !.Order = maxOrder(groups, 0) + 1,
        !.Color = IF group.Color = "" THEN DefaultColor(Len(groups))
                  ELSE group.Color]

\* The search stopping at the last group when no group has the name.
IndexOfGroupOrLast(groups, name) ==
    IF \E i \in 1..Len(groups) : groups[i].Name = name
    THEN CHOOSE i \in 1..Len(groups) :
            groups[i].Name = name /\ \A j \in 1..(i - 1) : groups[j].Name # name
    ELSE Len(groups)

\* The index of the first group with the name, 0 when there is none
\* (GetGroup, and the loops of UpdateGroup, DeleteGroup and GetGroupColor).
IndexOfGroup(groups, name) ==
    IF \E i \in 1..Len(groups) : groups[i].Name = name
    THEN CHOOSE i \in 1..Len(groups) :
            groups[i].Name = name /\ \A j \in 1..(i - 1) : groups[j].Name # name
    ELSE 0

\* EnsureGroupExists adding the group whether or not the name is there.
EnsuredGroupsAlways(groups, name) ==
    IF name = "" THEN groups
    ELSE Append(groups, AddedGroup(groups, TaskGroup(name, 0, "")))

\* GroupStore.EnsureGroupExists, the groups it leaves.
EnsuredGroups(groups, name) ==
    IF name = "" THEN groups
    ELSE IF IndexOfGroup(groups, name) = 0
    THEN Append(groups, AddedGroup(groups, TaskGroup(name, 0, "")))
    ELSE groups

\* s.Groups[i] = updated
UpdatedGroups(groups, i, updated) == [groups EXCEPT ![i] = updated]

\* append(s.Groups[:i], s.Groups[i+1:]...)
DeletedGroups(groups, i) ==
    SubSeq(groups, 1, i - 1) \o SubSeq(groups, i + 1, Len(groups))

\* GetGroupColor answering with the first group's color for an unknown name.
GroupColorOrFirst(groups, name) ==
    IF IndexOfGroup(groups, name) # 0
    THEN groups[IndexOfGroup(groups, name)].Color
    ELSE IF groups # <<>> THEN groups[1].Color ELSE UnknownGroupColor

\* GroupStore.GetGroupColor
GroupColor(groups, name) ==
    IF IndexOfGroup(groups, name) # 0
    THEN groups[IndexOfGroup(groups, name)].Color
    ELSE UnknownGroupColor

\* The loop of MoveGroupUp falling back on the second group.
MoveUpIndexOrSecond(groups, name) ==
    IF \E i \in 2..Len(groups) : groups[i].Name = name
    THEN CHOOSE i \in 2..Len(groups) :
            groups[i].Name = name /\ \A j \in 2..(i - 1) : groups[j].Name # name
    ELSE IF Len(groups) >= 2 THEN 2 ELSE 0

\* The loop of MoveGroupUp: the first group with the name that is not the
\* first group, 0 when there is none.
MoveUpIndex(groups, name) ==
    IF \E i \in 2..Len(groups) : groups[i].Name = name
    THEN CHOOSE i \in 2..Len(groups) :
            groups[i].Name = name /\ \A j \in 2..(i - 1) : groups[j].Name # name
    ELSE 0

\* The loop of MoveGroupDown: the first group with the name that is not the
\* last group, 0 when there is none.
MoveDownIndex(groups, name) ==
    IF \E i \in 1..(Len(groups) - 1) : groups[i].Name = name
    THEN CHOOSE i \in 1..(Len(groups) - 1) :
            groups[i].Name = name /\ \A j \in 1..(i - 1) : groups[j].Name # name
    ELSE 0

\* The two orders swapped.
SwapOrders(groups, i, j) ==
    [groups EXCEPT ![i].Order = groups[j].Order, ![j].Order = groups[i].Order]

\* The move without the re-sort.
MovedGroupsUnsorted(groups, i, j) == {SwapOrders(groups, i, j)}

\* The swap of the orders of the groups at i and j and the re-sort.
MovedGroups(groups, i, j) == SortedByOrder(SwapOrders(groups, i, j))

(***************************************************************************)
(* GroupStore operations as steps of the session.                          *)
(***************************************************************************)
\* What a GroupStore operation leaves alone besides the groups.
GroupFrame ==
    UNCHANGED <<fsVars, taskVars, issued, external, ret, screen, gLoaded,
                filePath, gLastModTime, tasksModel, screenVars>>

\* GroupStore.AddGroup(group)
AddGroup(group) ==
    /\ gLoaded
    /\ Groups' = Append(Groups, AddedGroup(Groups, group))
    /\ gret' = GRet("AddGroup", group.Name, FALSE, "", <<>>)
    /\ GroupFrame

\* GroupStore.EnsureGroupExists(name)
EnsureGroupExists(name) ==
    /\ gLoaded
    /\ Groups' = EnsuredGroups(Groups, name)
    /\ gret' = GRet("EnsureGroupExists", name, FALSE, "", Groups)
    /\ GroupFrame

\* GroupStore.UpdateGroup(name, updated)
UpdateGroup(name, updated) ==
    /\ gLoaded
    /\ LET i == IndexOfGroup(Groups, name)
       IN /\ Groups' = IF i # 0 THEN UpdatedGroups(Groups, i, updated) ELSE Groups
          /\ gret' = GRet("UpdateGroup", name, i # 0, "", <<>>)
    /\ GroupFrame

\* GroupStore.DeleteGroup(name)
DeleteGroup(name) ==
    /\ gLoaded
    /\ LET i == IndexOfGroup(Groups, name)
       IN /\ Groups' = IF i # 0 THEN DeletedGroups(Groups, i) ELSE Groups
          /\ gret' = GRet("DeleteGroup", name, i # 0, "", <<>>)
    /\ GroupFrame

\* GroupStore.MoveGroupUp(name)
MoveGroupUp(name) ==
    /\ gLoaded
    /\ LET i == MoveUpIndex(Groups, name)
       IN /\ Groups' \in IF i # 0 THEN MovedGroups(Groups, i, i - 1) ELSE {Groups}
          /\ gret' = GRet("MoveGroupUp", name, i # 0, "", Groups)
    /\ GroupFrame

\* GroupStore.MoveGroupDown(name)
MoveGroupDown(name) ==
    /\ gLoaded
    /\ LET i == MoveDownIndex(Groups, name)
       IN /\ Groups' \in IF i # 0 THEN MovedGroups(Groups, i, i + 1) ELSE {Groups}
          /\ gret' = GRet("MoveGroupDown", name, i # 0, "", Groups)
    /\ GroupFrame

\* GroupStore.GetGroupColor(name)
GetGroupColor(name) ==
    /\ gLoaded
    /\ Groups' = Groups
    /\ gret' = GRet("GetGroupColor", name, FALSE, GroupColor(Groups, name), <<>>)
    /\ GroupFrame

(***************************************************************************)
(* GroupSpec: a session working on the group store of a project.           *)
(***************************************************************************)
MaxGroups == 3       \* groups are added while the store holds fewer groups
MaxGroupOrder == 3   \* groups are added while the greatest order is smaller

\* The groups of the move tests, two groups of one order before a third,
\* and (for the stores that fill up) a group with an order below zero.
TestGroups ==
    <<TaskGroup("Group1", 0, "#ff0000"), TaskGroup("Group2", 1, "#00ff00"),
      TaskGroup("Group3", 2, "#0000ff")>>

TiedGroups ==
    <<TaskGroup("Group1", 1, "#ff0000"), TaskGroup("Group2", 1, "#00ff00"),
      TaskGroup("Group3", 2, "#0000ff")>>

LowGroups == <<TaskGroup("Group3", -2, "#0000ff")>>

GroupFiles(groups) ==
    Put(EmptyDir, GroupsFileName, FileEntry(MarshalGroups(groups), 1))

GroupDisks == {GroupFiles(TestGroups), GroupFiles(TiedGroups)}

\* What the callers hand to the operations: a new group that comes with an
\* order, a color and a name the test groups have, and a replacement with
\* another order and color.
GroupAddInputs == {TaskGroup("Group2", 9, "#abcdef")}

EnsureNames == {"", "Backend"}

\* The names of the test groups and a name no group has.
GroupNames == {"Group1", "Group2", "Group3", "Unregistered"}

GroupUpdates == {TaskGroup("Group2", 1, "#10b981")}

\* No project is open; the project's directory holds a groups file.
GroupInit ==
    /\ clock = 1
    /\ dirExists = TRUE
    /\ disk \in GroupDisks
    /\ dirMod = 1
    /\ backupOK = FALSE
    /\ mkdirOK = TRUE
    /\ backup = EmptyDir
    /\ loaded = FALSE
    /\ Tasks = <<>>
    /\ projectDir = ""
    /\ lastModTime = 0
    /\ gLoaded = FALSE
    /\ Groups = <<>>
    /\ filePath = ""
    /\ gLastModTime = 0
    /\ issued = <<>>
    /\ external = 0
    /\ ret = Ret("none", <<>>, "", <<>>)
    /\ screen = "ScreenProjects"
    /\ gret = NoGRet
    /\ tasksModel = ZeroTasksModel
    /\ groupsModel = ZeroGroupsModel
    /\ groupEditModel = ZeroGroupEditModel
    /\ detailModel = ZeroDetailModel
    /\ editModel = ZeroEditModel

\* The store has room for one more group.
CanAdd(max) == Len(Groups) < max /\ maxOrder(Groups, 0) < MaxGroupOrder

\* The inputs of an operation that may add a group: none once the store is
\* full.
Room(max, inputs) == IF CanAdd(max) THEN inputs ELSE {}

GroupNext ==
    \/ LoadGroups
    \/ \E group \in Room(MaxGroups, GroupAddInputs) : AddGroup(group)
    \/ \E name \in Room(MaxGroups, EnsureNames) : EnsureGroupExists(name)
    \/ \E name \in {"Group2", "Unregistered"}, updated \in GroupUpdates :
          UpdateGroup(name, updated)
    \/ \E name \in {"Group1", "Unregistered"} : DeleteGroup(name)
    \/ \E name \in {"Group2", "Unregistered"} : MoveGroupUp(name)
    \/ \E name \in {"Group2", "Unregistered"} : MoveGroupDown(name)
    \/ \E name \in {"Group2", "Unregistered"} : GetGroupColor(name)

GroupSpec == GroupInit /\ [][GroupNext]_vars

(***************************************************************************)
(* PaletteSpec: a session adding groups to a store that is empty, holds one *)
(* group, or holds nearly as many groups as there are default colors.       *)
(***************************************************************************)
MaxPalette == 9      \* groups are added while the store holds fewer groups

\* Seven groups, Team1 to Team7, none with an order above zero.
SevenGroups ==
    [i \in 1..7 |->
        TaskGroup(<<"Team1", "Team2", "Team3", "Team4", "Team5", "Team6",
                    "Team7">>[i], i - 7, DefaultColors[i])]

PaletteDisks == {GroupFiles(LowGroups), GroupFiles(SevenGroups)}

\* A new group with an order and without a color, and one with a color.
PaletteAddInputs ==
    {TaskGroup("Docs", 5, ""), TaskGroup("Frontend", 0, "#ff0000")}

\* No project is open; the project's directory may be missing.
PaletteInit ==
    /\ clock = 1
    /\ dirExists \in BOOLEAN
    /\ disk \in (IF dirExists THEN PaletteDisks ELSE {EmptyDir})
    /\ dirMod = IF dirExists THEN 1 ELSE 0
    /\ backupOK = FALSE
    /\ mkdirOK = TRUE
    /\ backup = EmptyDir
    /\ loaded = FALSE
    /\ Tasks = <<>>
    /\ projectDir = ""
    /\ lastModTime = 0
    /\ gLoaded = FALSE
    /\ Groups = <<>>
    /\ filePath = ""
    /\ gLastModTime = 0
    /\ issued = <<>>
    /\ external = 0
    /\ ret = Ret("none", <<>>, "", <<>>)
    /\ screen = "ScreenProjects"
    /\ gret = NoGRet
    /\ tasksModel = ZeroTasksModel
    /\ groupsModel = ZeroGroupsModel
    /\ groupEditModel = ZeroGroupEditModel
    /\ detailModel = ZeroDetailModel
    /\ editModel = ZeroEditModel

PaletteNext ==
    \/ LoadGroups
    \/ \E group \in Room(MaxPalette, PaletteAddInputs) : AddGroup(group)
    \/ \E name \in Room(MaxPalette, EnsureNames) : EnsureGroupExists(name)
    \/ \E name \in {"Backend", "Unregistered"} : GetGroupColor(name)

PaletteSpec == PaletteInit /\ [][PaletteNext]_vars

(***************************************************************************)
(* GroupsModel and GroupEditModel (internal/model/tasks.go): the group     *)
(* management screen and its dialog.  Both work on the GroupStore the App  *)
(* holds, which is the one they were handed; the App reloads nothing while *)
(* one of them is the screen.  The names typed into the dialog have no     *)
(* space around them, so strings.TrimSpace leaves them as they are.        *)
(***************************************************************************)
\* GroupStore.Save: the file system it leaves, and whether the project
\* directory exists afterwards.  Its callers drop the error.
SavedGroups(fs, exists, ok, groups, now) ==
    IF MkdirAllFails(exists, ok) THEN [fs |-> fs, exists |-> exists]
    ELSE [fs |-> WriteFile([fs EXCEPT !.dirMod = IF exists THEN @ ELSE now],
                           GroupsFileName, MarshalGroups(groups), now).fs,
          exists |-> TRUE]

\* What a key leaves of the GroupsModel and of the groups of its store;
\* saved tells that GroupStore.Save was called.
GroupsResult(m, groups, saved) == [m |-> m, Groups |-> groups, saved |-> saved]

\* GroupsModel.Update for a key: the models and groups it can leave.  The
\* keys that send a message (enter, e, n, esc) leave both as they are.
GroupsModelUpdate(m, key, groups) ==
    IF m.confirmDelete
    THEN IF key \in {"y", "Y"}
         THEN IF Len(groups) > 0
              THEN LET i == IndexOfGroup(groups, groups[m.cursor + 1].Name)
                       gs == DeletedGroups(groups, i)
                   IN {GroupsResult([cursor |-> ClampCursor(m.cursor, gs),
                                     confirmDelete |-> FALSE], gs, TRUE)}
              ELSE {GroupsResult([m EXCEPT !.confirmDelete = FALSE], groups,
                                 FALSE)}
         ELSE IF key \in {"n", "N", "esc"}
         THEN {GroupsResult([m EXCEPT !.confirmDelete = FALSE], groups, FALSE)}
         ELSE {GroupsResult(m, groups, FALSE)}
    ELSE CASE key \in {"up", "k"} ->
                 {GroupsResult(IF m.cursor > 0 THEN [m EXCEPT !.cursor = @ - 1]
                               ELSE m, groups, FALSE)}
           [] key \in {"down", "j"} ->
                 {GroupsResult(IF m.cursor < Len(groups) - 1
                               THEN [m EXCEPT !.cursor = @ + 1] ELSE m,
                               groups, FALSE)}
           [] key = "d" ->
                 {GroupsResult(IF Len(groups) > 0
                               THEN [m EXCEPT !.confirmDelete = TRUE] ELSE m,
                               groups, FALSE)}
           [] key \in {"K", "shift+up"} ->
                 LET i == IF Len(groups) > 0
                          THEN MoveUpIndex(groups, groups[m.cursor + 1].Name)
                          ELSE 0
                 IN IF i # 0
                    THEN {GroupsResult(IF m.cursor > 0
                                       THEN [m EXCEPT !.cursor = @ - 1] ELSE m,
                                       gs, TRUE) :
                             gs \in MovedGroups(groups, i, i - 1)}
                    ELSE {GroupsResult(m, groups, FALSE)}
           [] key \in {"J", "shift+down"} ->
                 LET i == IF Len(groups) > 0
                          THEN MoveDownIndex(groups, groups[m.cursor + 1].Name)
                          ELSE 0
                 IN IF i # 0
                    THEN {GroupsResult(IF m.cursor < Len(gs) - 1
                                       THEN [m EXCEPT !.cursor = @ + 1] ELSE m,
                                       gs, TRUE) :
                             gs \in MovedGroups(groups, i, i + 1)}
                    ELSE {GroupsResult(m, groups, FALSE)}
           [] OTHER -> {GroupsResult(m, groups, FALSE)}

\* A key of the group management screen: whether it saved the store, and
\* the groups and the cursor it found.
GKRet(key, saved, before, cursor) ==
    [op |-> "GroupsKeyMsg", name |-> key, ok |-> saved, color |-> "",
     before |-> before, cursor |-> cursor]

\* What the steps of the two group screens leave alone.
GroupScreenFrame ==
    UNCHANGED <<clock, backupOK, mkdirOK, backup, taskVars, gLoaded, filePath,
                gLastModTime, issued, external, ret, tasksModel, detailModel,
                editModel>>

\* case tea.KeyMsg on the group management screen: the auto-reload is
\* skipped and the key goes to GroupsModel.Update.
GroupsKeyMsg(key) ==
    /\ screen = "ScreenGroups"
    /\ gLoaded
    /\ \E u \in GroupsModelUpdate(groupsModel, key, Groups) :
          LET s == IF u.saved
                   THEN SavedGroups(FS(disk, dirMod, backup), dirExists,
                                    mkdirOK, u.Groups, clock)
                   ELSE [fs |-> FS(disk, dirMod, backup), exists |-> dirExists]
          IN /\ groupsModel' = u.m
             /\ Groups' = u.Groups
             /\ disk' = s.fs.disk
             /\ dirMod' = s.fs.dirMod
             /\ dirExists' = s.exists
             /\ gret' = GKRet(key, u.saved, Groups, groupsModel.cursor)
    /\ UNCHANGED <<screen, groupEditModel>>
    /\ GroupScreenFrame

\* case ManageGroupsMsg, sent by the task list for the key G: the screen
\* opens anew, no key of it pressed yet.
ManageGroupsMsg ==
    /\ screen = "ScreenTasks"
    /\ ~tasksModel.searchActive /\ ~tasksModel.statusChangeMode
    /\ groupsModel' = ZeroGroupsModel
    /\ screen' = "ScreenGroups"
    /\ gret' = NoGRet
    /\ UNCHANGED <<fsVars, taskVars, groupVars, issued, external, ret,
                   tasksModel, groupEditModel, detailModel, editModel>>

\* The index of the color in DefaultColors, counted from 0, 0 when it is
\* not one of them.
ColorIdx(color) ==
    IF \E i \in 1..Len(DefaultColors) : DefaultColors[i] = color
    THEN (CHOOSE i \in 1..Len(DefaultColors) : DefaultColors[i] = color) - 1
    ELSE 0

\* NewGroupEditModel
NewGroupEditModel(group, isNew) ==
    IF isNew
    THEN [group |-> TaskGroup("", 0, DefaultColors[1]), isNew |-> TRUE,
          colorIdx |-> 0, nameInput |-> ""]
    ELSE [group |-> group, isNew |-> FALSE, colorIdx |-> ColorIdx(group.Color),
          nameInput |-> group.Name]

\* case EditGroupMsg, sent by the group management screen for n (a new
\* group) and for enter or e (the group under the cursor)
EditGroupMsg(isNew) ==
    /\ screen = "ScreenGroups"
    /\ ~groupsModel.confirmDelete
    /\ isNew \/ Len(Groups) > 0
    /\ groupEditModel' =
          NewGroupEditModel(IF isNew THEN TaskGroup("", 0, "")
                            ELSE Groups[groupsModel.cursor + 1], isNew)
    /\ screen' = "ScreenGroupEdit"
    /\ UNCHANGED <<fsVars, taskVars, groupVars, issued, external, ret, gret,
                   tasksModel, groupsModel, detailModel, editModel>>

\* The keys that leave the given text in the name input of the dialog
\* (textinput.Model.Update with the focus on the name).
GroupEditTyped(text) ==
    /\ screen = "ScreenGroupEdit"
    /\ groupEditModel' = [groupEditModel EXCEPT !.nameInput = text]
    /\ UNCHANGED <<fsVars, taskVars, groupVars, issued, external, ret, gret,
                   screen, tasksModel, groupsModel, detailModel, editModel>>

\* GroupEditModel.save: the groups it leaves, and whether it saved and sent
\* GroupSavedMsg.
GroupEditSaved(m, groups) ==
    LET name == m.nameInput
        color == DefaultColors[m.colorIdx + 1]
    IN IF name = "" THEN [Groups |-> groups, saved |-> FALSE]
       ELSE IF m.isNew
       THEN [Groups |-> Append(groups,
                               AddedGroup(groups, TaskGroup(name, 0, color))),
             saved |-> TRUE]
       ELSE LET i == IndexOfGroup(groups, m.group.Name)
                updated == TaskGroup(name, m.group.Order, color)
            IN [Groups |-> IF i # 0 THEN UpdatedGroups(groups, i, updated)
                           ELSE groups,
                saved |-> TRUE]

\* case tea.KeyMsg on the dialog for enter or ctrl+s: GroupEditModel.save
GroupEditKeyMsg(key) ==
    /\ screen = "ScreenGroupEdit"
    /\ key \in {"enter", "ctrl+s"}
    /\ gLoaded
    /\ LET u == GroupEditSaved(groupEditModel, Groups)
           s == IF u.saved
                THEN SavedGroups(FS(disk, dirMod, backup), dirExists, mkdirOK,
                                 u.Groups, clock)
                ELSE [fs |-> FS(disk, dirMod, backup), exists |-> dirExists]
       IN /\ Groups' = u.Groups
          /\ disk' = s.fs.disk
          /\ dirMod' = s.fs.dirMod
          /\ dirExists' = s.exists
          /\ gret' = GRet("GroupEditModel.save", "", u.saved, "", <<>>)
    /\ UNCHANGED <<screen, groupsModel, groupEditModel>>
    /\ GroupScreenFrame

\* case GroupSavedMsg, sent by GroupEditModel.save when it saved; the store
\* of the message is the one the App holds.
GroupSavedMsg ==
    /\ screen = "ScreenGroupEdit"
    /\ gret.op = "GroupEditModel.save" /\ gret.ok
    /\ groupsModel' = ZeroGroupsModel
    /\ screen' = "ScreenGroups"
    /\ gret' = GRet("GroupSavedMsg", "", FALSE, "", <<>>)
    /\ UNCHANGED <<fsVars, taskVars, groupVars, issued, external, ret,
                   tasksModel, groupEditModel, detailModel, editModel>>

(***************************************************************************)
(* ManageSpec: the project of five tasks with its groups moved, deleted,   *)
(* added and renamed on the group management screen, and the group filter  *)
(* of the task list cycled in between.                                     *)
(***************************************************************************)
\* The names typed into the dialog: a new name, and the name of a group
\* the store has.
EditNames == {"Ops", "Backend"}

\* The keys of the group management screen: the cursor moved down and the
\* group under it moved up.
GroupsKeys == {"down", "K"}

\* The filters are cycled on the task list; the groups are managed from
\* the list that shows all, and a group is added while the store has room
\* for one.
ManageNext ==
    \/ SelectProjectMsg
    \/ \E key \in {"f", "g"} : KeyMsg(key)
    \/ /\ tasksModel.groupFilter = "" /\ tasksModel.statusFilter = ""
       /\ ManageGroupsMsg
    \/ \E key \in GroupsKeys : GroupsKeyMsg(key)
    \/ EditGroupMsg(TRUE)
    \/ \E text \in EditNames : GroupEditTyped(text)
    \/ CanAdd(MaxGroups) /\ GroupEditKeyMsg("enter")
    \/ GroupSavedMsg
    \/ ChangeScreenMsg("ScreenGroupEdit", "ScreenGroups")
    \/ BackFromGroupsMsg

ManageSpec == ListInit /\ [][ManageNext]_vars

(***************************************************************************)
(* EditModel (internal/model/edit.go): the form of a task.  The form reads *)
(* and writes the store of the App: no key reloads it on this screen.  Of  *)
(* the inputs the subject is typed into; the description is given back     *)
(* trimmed, the owner and the dependencies as the task has them (the tasks *)
(* of the model have no owner and no dependencies).                        *)
(***************************************************************************)
WhiteSpace == {" ", "\t", "\n", "\r"}

RECURSIVE TrimLeft(_)
TrimLeft(s) ==
    IF s # <<>> /\ Head(s) \in WhiteSpace THEN TrimLeft(Tail(s)) ELSE s

RECURSIVE TrimRight(_)
TrimRight(s) ==
    IF s # <<>> /\ s[Len(s)] \in WhiteSpace
    THEN TrimRight(SubSeq(s, 1, Len(s) - 1)) ELSE s

\* strings.TrimSpace
TrimSpace(s) == TrimRight(TrimLeft(s))

\* statuses of NewEditModel
EditStatuses == <<"pending", "in_progress", "completed">>

\* The loops of NewEditModel that look for the status and the group: the
\* index of the first entry equal to x, and 0 when there is none.
SelectorIndex(seq, x) ==
    IF \E i \in 1..Len(seq) : seq[i] = x
    THEN (CHOOSE i \in 1..Len(seq) :
             seq[i] = x /\ \A j \in 1..(i - 1) : seq[j] # x) - 1
    ELSE 0

\* NewEditModel
NewEditModel(task, groups, isNew, prev) ==
    LET names == <<"">> \o GetGroupNames(groups)
    IN IF isNew
       THEN [task |-> TextTask(<<>>, <<>>, <<>>, "pending", EmptyMap),
             isNew |-> TRUE, subjectInput |-> <<>>, statusIdx |-> 0,
             groupIdx |-> 0, groups |-> names, focusIdx |-> 0,
             prevScreen |-> prev]
       ELSE [task |-> task, isNew |-> FALSE, subjectInput |-> task.Subject,
             statusIdx |-> SelectorIndex(EditStatuses, task.Status),
             groupIdx |-> SelectorIndex(names, GetTaskGroup(task)),
             groups |-> names, focusIdx |-> 0, prevScreen |-> prev]

\* data.SetTaskGroup
SetTaskGroup(task, group) ==
    [task EXCEPT !.Metadata =
        IF group = ""
        THEN [k \in DOMAIN @ \ {"group"} |-> @[k]]
        ELSE [k \in DOMAIN @ \cup {"group"} |->
                 IF k = "group" THEN group ELSE @[k]]]

\* TaskStore.Save on the store of a screen model; its error is dropped.
SavedStore(st) ==
    LET fails == MkdirAllFails(st.dirExists, mkdirOK)
        r == IF fails
             THEN [fs |-> FS(st.disk, st.dirMod, st.backup), err |-> TRUE]
             ELSE SaveTasks(FS(st.disk,
                               IF st.dirExists THEN st.dirMod ELSE clock,
                               st.backup), backupOK, st.Tasks, clock)
    IN StoreState(st.Tasks, st.Groups, r.fs.disk, ~fails, r.fs.dirMod,
                  r.fs.backup)

\* EditModel.save saving whatever the subject is.
EditSavedAnySubject(m, st) ==
    LET task == SetTaskGroup(
                    [m.task EXCEPT !.Subject = TrimSpace(m.subjectInput),
                                   !.Description = TrimSpace(@),
                                   !.Status = EditStatuses[m.statusIdx + 1]],
                    IF m.groupIdx > 0 THEN m.groups[m.groupIdx + 1] ELSE "")
        i == IndexOfID(st.Tasks, task.ID)
        tasks == IF m.isNew THEN Append(st.Tasks, AddedTask(st.Tasks, task))
                 ELSE IF i # 0 THEN UpdatedTasks(st.Tasks, i, task)
                 ELSE st.Tasks
    IN [m |-> [m EXCEPT !.task = task], saved |-> TRUE,
        st |-> SavedStore([st EXCEPT !.Tasks = tasks])]

\* EditModel.save: the form, the store and the directory it leaves, and
\* whether it returns the command of TaskSavedMsg.
EditSaved(m, st) ==
    IF TrimSpace(m.subjectInput) = <<>>
    THEN [m |-> m, saved |-> FALSE, st |-> st]
    ELSE EditSavedAnySubject(m, st)

\* subjectInput.CharLimit
SubjectCharLimit == 200

\* The characters typed into the subject.
SubjectChars == {" ", "a"}

\* EditModel.Update for a key other than ctrl+s and esc.
EditModelUpdate(m, key) ==
    CASE key = "tab" -> [m EXCEPT !.focusIdx = (@ + 1) % 7]
      [] key = "shift+tab" -> [m EXCEPT !.focusIdx = (@ + 6) % 7]
      [] key = "up" /\ m.focusIdx = 2 ->
            IF m.statusIdx > 0 THEN [m EXCEPT !.statusIdx = @ - 1] ELSE m
      [] key = "down" /\ m.focusIdx = 2 ->
            IF m.statusIdx < Len(EditStatuses) - 1
            THEN [m EXCEPT !.statusIdx = @ + 1] ELSE m
      [] key = "up" /\ m.focusIdx = 3 ->
            IF m.groupIdx > 0 THEN [m EXCEPT !.groupIdx = @ - 1] ELSE m
      [] key = "down" /\ m.focusIdx = 3 ->
            IF m.groupIdx < Len(m.groups) - 1
            THEN [m EXCEPT !.groupIdx = @ + 1] ELSE m
      [] key \in SubjectChars /\ m.focusIdx = 0 ->
            IF Len(m.subjectInput) < SubjectCharLimit
            THEN [m EXCEPT !.subjectInput = Append(@, key)] ELSE m
      [] key = "backspace" /\ m.focusIdx = 0 ->
            IF m.subjectInput # <<>>
            THEN [m EXCEPT !.subjectInput = SubSeq(@, 1, Len(@) - 1)] ELSE m
      [] OTHER -> m

\* What the steps of the form leave alone.
EditFrame ==
    UNCHANGED <<clock, backupOK, mkdirOK, loaded, projectDir, lastModTime,
                groupVars, external, gret, groupsModel, groupEditModel,
                detailModel>>

\* case NewTaskMsg, sent by the task list for the key n
NewTaskMsg ==
    /\ screen = "ScreenTasks"
    /\ ~tasksModel.searchActive /\ ~tasksModel.statusChangeMode
    /\ editModel' = NewEditModel(ZeroTask, Groups, TRUE, screen)
    /\ screen' = "ScreenEdit"
    /\ ret' = Ret("NewTaskMsg", <<>>, "", <<>>)
    /\ UNCHANGED <<dirExists, dirMod, disk, backup, Tasks, issued, tasksModel>>
    /\ EditFrame

\* case EditTaskMsg, sent by the task list for the key e on the row of a
\* task, and by the detail screen for the task it shows
EditTaskMsg ==
    /\ \/ /\ screen = "ScreenTasks"
          /\ ~tasksModel.searchActive /\ ~tasksModel.statusChangeMode
          /\ OnTaskRow(tasksModel)
          /\ editModel' = NewEditModel(
                              tasksModel.items[tasksModel.cursor + 1].task,
                              Groups, FALSE, screen)
       \/ /\ screen = "ScreenDetail"
          /\ ~detailModel.confirmDelete
          /\ editModel' = NewEditModel(detailModel.task, Groups, FALSE, screen)
    /\ screen' = "ScreenEdit"
    /\ ret' = Ret("EditTaskMsg", <<>>, "", <<>>)
    /\ UNCHANGED <<dirExists, dirMod, disk, backup, Tasks, issued, tasksModel>>
    /\ EditFrame

\* case tea.KeyMsg on the form, for a key other than esc: no reload on this
\* screen; ctrl+s and ctrl+enter save.  The command of a save is taken
\* before the next key.
EditKeyMsg(key) ==
    /\ screen = "ScreenEdit"
    /\ ret.op # "EditModel.save"
    /\ key # "esc"
    /\ LET u == IF key \in {"ctrl+s", "ctrl+enter"}
                THEN EditSaved(editModel,
                               StoreState(Tasks, Groups, disk, dirExists,
                                          dirMod, backup))
                ELSE [m |-> EditModelUpdate(editModel, key), saved |-> FALSE,
                      st |-> StoreState(Tasks, Groups, disk, dirExists,
                                        dirMod, backup)]
       IN /\ editModel' = u.m
          /\ Tasks' = u.st.Tasks
          /\ disk' = u.st.disk
          /\ dirExists' = u.st.dirExists
          /\ dirMod' = u.st.dirMod
          /\ backup' = u.st.backup
          /\ ret' = Ret(IF u.saved THEN "EditModel.save"
                        ELSE IF key \in {"ctrl+s", "ctrl+enter"}
                        THEN "EditModel.save nil" ELSE "EditKeyMsg",
                        <<>>, "", <<>>)
          /\ issued' = IF u.saved /\ editModel.isNew
                       THEN Append(issued, u.st.Tasks[Len(u.st.Tasks)].ID)
                       ELSE issued
    /\ UNCHANGED <<tasksModel, screen>>
    /\ EditFrame

\* case TaskSavedMsg, the command of a save
TaskSavedMsg ==
    /\ screen = "ScreenEdit"
    /\ ret.op = "EditModel.save"
    /\ tasksModel' \in NewTasksModel(Tasks, Groups)
    /\ screen' = "ScreenTasks"
    /\ ret' = Ret("TaskSavedMsg", <<>>, "", <<>>)
    /\ UNCHANGED <<dirExists, dirMod, disk, backup, Tasks, issued, editModel>>
    /\ EditFrame

\* case CancelEditMsg, sent by the form for the key esc
CancelEditMsg ==
    /\ screen = "ScreenEdit"
    /\ ret.op # "EditModel.save"
    /\ screen' = IF editModel.prevScreen = "ScreenDetail" THEN "ScreenDetail"
                 ELSE "ScreenTasks"
    /\ ret' = Ret("CancelEditMsg", <<>>, "", <<>>)
    /\ UNCHANGED <<dirExists, dirMod, disk, backup, Tasks, issued, tasksModel,
                   editModel>>
    /\ EditFrame

(***************************************************************************)
(* EditSpec: the task list and the form of a project of three tasks: one   *)
(* in a registered group, one in a group that is not registered, and one   *)
(* whose status is none of the three the form offers.  The user edits the  *)
(* tasks and adds one task.                                                *)
(***************************************************************************)
MaxSubject == 2

EditTasks ==
    {TextTask(<<"1">>, <<"A">>, <<>>, "pending", Group("Backend")),
     TextTask(<<"2">>, <<"B">>, <<>>, "in_progress", Group("Ghost")),
     TextTask(<<"3">>, <<"C">>, <<>>, "blocked", EmptyMap)}

EditDisk ==
    Put(TaskFiles(EditTasks, 1), GroupsFileName,
        FileEntry(MarshalGroups(ListGroups), 1))

\* A session that has not selected its project, whose directory holds d.
ProjectInit(d) ==
    /\ clock = 2
    /\ dirExists = TRUE
    /\ disk = d
    /\ dirMod = 1
    /\ backupOK = FALSE
    /\ mkdirOK = TRUE
    /\ backup = EmptyDir
    /\ loaded = FALSE
    /\ Tasks = <<>>
    /\ projectDir = ""
    /\ lastModTime = 0
    /\ gLoaded = FALSE
    /\ Groups = <<>>
    /\ filePath = ""
    /\ gLastModTime = 0
    /\ issued = <<>>
    /\ external = 0
    /\ ret = Ret("none", <<>>, "", <<>>)
    /\ screen = "ScreenProjects"
    /\ gret = NoGRet
    /\ tasksModel = ZeroTasksModel
    /\ groupsModel = ZeroGroupsModel
    /\ groupEditModel = ZeroGroupEditModel
    /\ detailModel = ZeroDetailModel
    /\ editModel = ZeroEditModel

EditInit == ProjectInit(EditDisk)

\* The task whose status the user sets in the form.
StatusEditedIds == {<<"1">>}

\* The keys the form is given: the subject stays within MaxSubject
\* characters, a letter is typed into the form of a new task, and the
\* status selector is reached and moved in the form of one task.
EditKeysOf(m) ==
    {"ctrl+s", "backspace"}
       \cup (IF Len(m.subjectInput) < MaxSubject
             THEN IF m.isNew THEN SubjectChars ELSE {" "} ELSE {})
       \cup (IF m.task.ID \in StatusEditedIds /\ m.focusIdx < 2
             THEN {"tab"} ELSE {})
       \cup (IF m.focusIdx = 2 THEN {"down"} ELSE {})

EditNext ==
    \/ SelectProjectMsg
    \/ screen = "ScreenTasks" /\ KeyMsg("down")
    \/ Len(Tasks) <= Cardinality(EditTasks) /\ NewTaskMsg
    \/ EditTaskMsg
    \/ \E key \in EditKeysOf(editModel) : EditKeyMsg(key)
    \/ TaskSavedMsg
    \/ CancelEditMsg

EditSpec == EditInit /\ [][EditNext]_vars

(***************************************************************************)
(* ReorderSpec: the group management screen of a project without tasks     *)
(* whose groups file holds the test groups, the groups with two equal      *)
(* orders, or three groups two of which have one name.  The user moves the *)
(* cursor and the groups.                                                  *)
(***************************************************************************)
TwinGroups ==
    <<TaskGroup("Group1", 0, "#ff0000"), TaskGroup("Group2", 1, "#00ff00"),
      TaskGroup("Group1", 2, "#0000ff")>>

ReorderDisks ==
    {GroupFiles(TestGroups), GroupFiles(TiedGroups), GroupFiles(TwinGroups)}

ReorderInit == \E d \in ReorderDisks : ProjectInit(d)

ReorderKeys == {"up", "down", "K", "J"}

ReorderNext ==
    \/ SelectProjectMsg
    \/ ManageGroupsMsg
    \/ \E key \in ReorderKeys : GroupsKeyMsg(key)
    \/ BackFromGroupsMsg

ReorderSpec == ReorderInit /\ [][ReorderNext]_vars

(***************************************************************************)
(* StatusSpec: the task list of the project of three tasks with the cursor *)
(* moved down and the status of the task under it changed or not.          *)
(***************************************************************************)
\* The keys the list is given in the status change mode (x is a key the
\* mode does not know) and out of it.
StatusModeKeys == {"p", "i", "c", "1", "2", "3", "esc", "x"}

StatusListKeys == {"down", "s"}

StatusNext ==
    \/ SelectProjectMsg
    \/ /\ screen = "ScreenTasks"
       /\ \E key \in (IF tasksModel.statusChangeMode THEN StatusModeKeys
                      ELSE StatusListKeys) : KeyMsg(key)

StatusSpec == EditInit /\ [][StatusNext]_vars

(***************************************************************************)
(* OrderSpec: a session loading a groups file whose orders are pairwise    *)
(* distinct (in order, out of order with gaps, or one group below zero),   *)
(* then adding, ensuring, deleting and moving groups.                      *)
(***************************************************************************)
ShuffledGroups ==
    <<TaskGroup("Group1", 2, "#ff0000"), TaskGroup("Group2", -1, "#00ff00"),
      TaskGroup("Group3", 0, "#0000ff")>>

OrderDisks ==
    {GroupFiles(TestGroups), GroupFiles(ShuffledGroups), GroupFiles(LowGroups)}

OrderInit == \E d \in OrderDisks : ProjectInit(d)

OrderNext ==
    \/ LoadGroups
    \/ \E group \in Room(MaxGroups, GroupAddInputs) : AddGroup(group)
    \/ \E name \in Room(MaxGroups, EnsureNames) : EnsureGroupExists(name)
    \/ \E name \in GroupNames : DeleteGroup(name)
    \/ \E name \in GroupNames : MoveGroupUp(name)
    \/ \E name \in GroupNames : MoveGroupDown(name)

OrderSpec == OrderInit /\ [][OrderNext]_vars

(***************************************************************************)
(* DetailModel (internal/model/detail.go): the screen of one task.  The    *)
(* model keeps the store it was handed by ViewTaskMsg; the App's reload    *)
(* puts another store into a.taskStore and leaves a.detail as it is.       *)
(***************************************************************************)
\* DetailModel.cycleStatus before its Save: the task with the next of the
\* three statuses, put into the store of the model by UpdateTask.
DetailCycledUnsaved(m, st) ==
    IF \E k \in 1..Len(EditStatuses) : EditStatuses[k] = m.task.Status
    THEN LET k == CHOOSE k \in 1..Len(EditStatuses) :
                     EditStatuses[k] = m.task.Status
             task == [m.task EXCEPT
                         !.Status = EditStatuses[(k % Len(EditStatuses)) + 1]]
             i == IndexOfID(st.Tasks, task.ID)
             tasks == IF i # 0 THEN UpdatedTasks(st.Tasks, i, task)
                      ELSE st.Tasks
         IN [m |-> [m EXCEPT !.task = task], st |-> [st EXCEPT !.Tasks = tasks]]
    ELSE [m |-> m, st |-> st]

\* DetailModel.cycleStatus: the next of the three statuses, UpdateTask and
\* Save on the store of the model; a task of another status is left alone.
DetailCycled(m, st) ==
    IF \E k \in 1..Len(EditStatuses) : EditStatuses[k] = m.task.Status
    THEN LET u == DetailCycledUnsaved(m, st)
         IN [m |-> u.m, st |-> SavedStore(u.st)]
    ELSE [m |-> m, st |-> st]

\* The confirmed delete: DeleteTask and Save on the store of the model.
DetailDeleted(m, st) ==
    LET i == IndexOfID(st.Tasks, m.task.ID)
        fs == RemoveFile(FS(st.disk, st.dirMod, st.backup),
                         TaskFileName(m.task.ID), clock)
    IN IF i # 0
       THEN [m |-> m,
             st |-> SavedStore([st EXCEPT
                                   !.Tasks = DeletedTasks(@, i, m.task.ID),
                                   !.disk = fs.disk, !.dirMod = fs.dirMod])]
       ELSE [m |-> m, st |-> SavedStore(st)]

\* DetailModel.Update for a key; st holds the tasks of the model's store.
\* The keys that send a message (esc, left, e, j, k) and the keys that
\* scroll leave the model and the store as they are.
DetailModelUpdate(m, key, st) ==
    IF m.confirmDelete
    THEN IF key \in {"y", "Y"} THEN DetailDeleted(m, st)
         ELSE IF key \in {"n", "N", "esc"}
         THEN [m |-> [m EXCEPT !.confirmDelete = FALSE], st |-> st]
         ELSE [m |-> m, st |-> st]
    ELSE CASE key = "s" -> DetailCycled(m, st)
           [] key = "d" -> [m |-> [m EXCEPT !.confirmDelete = TRUE], st |-> st]
           [] OTHER -> [m |-> m, st |-> st]

\* case ViewTaskMsg, sent by the task list for enter on the row of a task
ViewTaskMsg ==
    /\ screen = "ScreenTasks"
    /\ ~tasksModel.searchActive /\ ~tasksModel.statusChangeMode
    /\ OnTaskRow(tasksModel)
    /\ detailModel' = [task |-> tasksModel.items[tasksModel.cursor + 1].task,
                       taskStore |-> Tasks, stale |-> FALSE,
                       confirmDelete |-> FALSE]
    /\ screen' = "ScreenDetail"
    /\ ret' = Ret("ViewTaskMsg", <<>>, "", <<>>)
    /\ UNCHANGED <<fsVars, taskVars, groupVars, issued, external, gret,
                   tasksModel, groupsModel, groupEditModel, editModel>>

\* case tea.KeyMsg on the detail screen: the auto-reload, which replaces
\* the stores of the App, and then DetailModel.Update on the model's store.
DetailKeyMsg(key) ==
    /\ screen = "ScreenDetail"
    /\ LET reload == AutoReloads(key, screen)
       IN \E t \in (IF reload
                    THEN StoresOfLoadTasks(disk, dirExists, dirMod, backup,
                                           backupOK, clock)
                    ELSE {CurrentTaskStore}),
             g \in (IF reload THEN StoresOfLoadGroups(disk, dirExists)
                    ELSE {CurrentGroupStore}) :
             LET m == [detailModel EXCEPT !.stale = @ \/ reload]
                 u == DetailModelUpdate(m, key,
                         StoreState(m.taskStore, g.Groups, disk, dirExists,
                                    dirMod, t.backup))
             IN /\ detailModel' = [u.m EXCEPT !.taskStore = u.st.Tasks]
                /\ Tasks' = IF m.stale THEN t.Tasks ELSE u.st.Tasks
                /\ lastModTime' = t.lastModTime
                /\ projectDir' = IF reload THEN GetProjectDir(ProjectName)
                                 ELSE projectDir
                /\ issued' = IF reload THEN <<>> ELSE issued
                /\ SetGroupStore(g)
                /\ disk' = u.st.disk
                /\ dirExists' = u.st.dirExists
                /\ dirMod' = u.st.dirMod
                /\ backup' = u.st.backup
                /\ ret' = Ret(IF reload THEN "KeyMsg reload" ELSE "KeyMsg",
                              <<>>, "", <<>>)
    /\ UNCHANGED <<clock, backupOK, mkdirOK, loaded, external, screen, gret,
                   tasksModel, groupsModel, groupEditModel, editModel>>

(***************************************************************************)
(* DetailSpec: the task list and the detail screen of the project of three *)
(* tasks, the user cycling the status of a task and deleting it, while     *)
(* another process adds a task file.                                       *)
(***************************************************************************)
DetailExternalTasks ==
    {TextTask(<<"4">>, <<"N">>, <<>>, "pending", EmptyMap)}

\* The keys of the detail screen; x is a key it has no binding for.
DetailKeys == {"s", "d", "y", "n", "x"}

DetailNext ==
    \/ SelectProjectMsg
    \/ screen = "ScreenTasks" /\ KeyMsg("down")
    \/ ViewTaskMsg
    \/ \E key \in DetailKeys : DetailKeyMsg(key)
    \/ BackToTasksMsg
    \/ \E task \in DetailExternalTasks : ExternalWrite(task)

DetailSpec == EditInit /\ [][DetailNext]_vars

(***************************************************************************)
(* Properties.                                                             *)
(***************************************************************************)
Range(seq) == {seq[i] : i \in 1..Len(seq)}

\* The store of the dependency scenario: {1: blocks=[2]}, {2: blockedBy=[1]}.
DepsStore ==
    <<Task(<<"1">>, "Task 1", "pending", <<<<"2">>>>, <<>>, "", EmptyMap),
      Task(<<"2">>, "Task 2", "in_progress", <<>>, <<<<"1">>>>, "", EmptyMap)>>

\* C1: after DeleteTask(id) succeeds no task of the collection has that id
\* and no remaining task's Blocks or BlockedBy contains it; on the store
\* {1: blocks=[2]}, {2: blockedBy=[1]}, DeleteTask("1") leaves exactly task 2
\* with an empty blockedBy.
C1_DeleteCascades ==
    [][\A id \in OpIds :
          (DeleteTask(id) /\ ret'.err = "") =>
              /\ \A i \in 1..Len(Tasks') :
                    /\ Tasks'[i].ID # id
                    /\ id \notin Range(Tasks'[i].Blocks)
                    /\ id \notin Range(Tasks'[i].BlockedBy)
              /\ (id = <<"1">> /\ Tasks = DepsStore) =>
                    Tasks' = <<[DepsStore[2] EXCEPT !.BlockedBy = <<>>]>>]_vars

\* DeleteTask("1") has succeeded on the scenario's store.
C1_Witness ==
    /\ ret.op = "DeleteTask"
    /\ ret.err = ""
    /\ ret.id = <<"1">>
    /\ Tasks = <<[DepsStore[2] EXCEPT !.BlockedBy = <<>>]>>

\* The greatest numeric id of a collection, 0 when it has none.
GreatestNumericID(tasks) ==
    LET vals == {Atoi(tasks[i].ID).val : i \in 1..Len(tasks)} \cup {0}
    IN CHOOSE m \in vals : \A v \in vals : v <= m

\* C2: AddTask assigns and returns (greatest numeric id of the existing
\* tasks) + 1, "1" on an empty store, and appends the new task with that id.
C2_AddTaskAssignsMaxPlusOne ==
    [][\A task \in AddInputs :
          AddTask(task) =>
              /\ Atoi(ret'.val) =
                    [val |-> GreatestNumericID(Tasks) + 1, err |-> FALSE]
              /\ Tasks = <<>> => ret'.val = <<"1">>
              /\ Len(Tasks') = Len(Tasks) + 1
              /\ SubSeq(Tasks', 1, Len(Tasks)) = Tasks
              /\ Tasks'[Len(Tasks')].ID = ret'.val
              /\ Tasks'[Len(Tasks')].Subject = task.Subject]_vars

\* AddTask has returned "11" on a store whose greatest id is "10".
C2_Witness ==
    /\ ret.op = "AddTask"
    /\ ret.val = <<"1", "1">>
    /\ Len(Tasks) = 3
    /\ Tasks[3].ID = <<"1", "1">>
    /\ \E i \in 1..2 : Tasks[i].ID = <<"1", "0">>

\* C4: the ids of the tasks of the collection are pairwise distinct after
\* any sequence of AddTask, UpdateTask and DeleteTask on a loaded store.
C4_UniqueIDs ==
    \A i, j \in 1..Len(Tasks) : i # j => Tasks[i].ID # Tasks[j].ID

\* Two tasks were added to a store that a task was deleted from.
C4_Witness ==
    /\ ret.op = "AddTask"
    /\ Len(issued) = 2
    /\ Len(Tasks) = 3
    /\ Tasks[1].ID = <<"2">>

\* C5: every id AddTask returns is numerically greater than every id an
\* earlier AddTask on the same store returned.
C5_IdsNeverReused ==
    [][\A task \in AddInputs :
          AddTask(task) =>
              \A k \in 1..Len(issued) : IdKey(ret'.val) > IdKey(issued[k])]_vars

NoTaskHas(tasks, id) == \A i \in 1..Len(tasks) : tasks[i].ID # id

\* C6: UpdateTask and DeleteTask with an id that no task has return the
\* "not found" error and leave the collection as it was.
C6_NotFoundLeavesStore ==
    [][/\ \A task \in UpdateInputs :
             (UpdateTask(task) /\ NoTaskHas(Tasks, task.ID)) =>
                 ret'.err = "not found" /\ Tasks' = Tasks
       /\ \A id \in OpIds :
             (DeleteTask(id) /\ NoTaskHas(Tasks, id)) =>
                 ret'.err = "not found" /\ Tasks' = Tasks]_vars

\* DeleteTask("999") has failed on a store of two tasks or more.
C6_Witness ==
    /\ ret.op = "DeleteTask"
    /\ ret.id = <<"9", "9", "9">>
    /\ ret.err = "not found"
    /\ Len(Tasks) >= 2

\* C7: UpdateTask(t) with an id of the store puts t, whole, in the place of
\* the task with that id and leaves the length, the order and every other
\* task as they were.
C7_UpdateReplacesWholesale ==
    [][\A task \in UpdateInputs :
          (UpdateTask(task) /\ ~NoTaskHas(Tasks, task.ID)) =>
              /\ ret'.err = ""
              /\ Len(Tasks') = Len(Tasks)
              /\ \A i \in 1..Len(Tasks) :
                    Tasks'[i] = IF Tasks[i].ID = task.ID THEN task
                                ELSE Tasks[i]]_vars

\* UpdateTask has replaced task 2 of the scenario's store.
C7_Witness ==
    /\ ret.op = "UpdateTask"
    /\ ret.err = ""
    /\ Len(Tasks) = 2
    /\ Tasks[1] = DepsStore[1]
    /\ Tasks[2].ID = <<"2">>
    /\ Tasks[2].Subject = "Linked"
    /\ Tasks[2].BlockedBy = <<<<"1", "0">>, <<"1">>, <<"1", "0">>>>

\* The task files of a directory and what each holds.
TaskFileData(d) == [n \in TaskFileNames(d) |-> d[n].data]

\* C8 as claimed: AddTask, UpdateTask and DeleteTask leave the set and the
\* contents of the task files on disk as they were.
C8_MutatorsLeaveDisk ==
    [][(\/ \E task \in AddInputs : AddTask(task)
        \/ \E task \in UpdateInputs : UpdateTask(task)
        \/ \E id \in OpIds : DeleteTask(id)) =>
            TaskFileData(disk') = TaskFileData(disk)]_vars

\* C8: AddTask and UpdateTask leave the directory as it was; a successful
\* DeleteTask(id) removes the entry <id>.json and nothing else, a failed one
\* nothing, so the links it strips from the other tasks are not on disk.
C8_OnlyDeleteTouchesDisk ==
    [][/\ \A task \in AddInputs : AddTask(task) => disk' = disk
       /\ \A task \in UpdateInputs : UpdateTask(task) => disk' = disk
       /\ \A id \in OpIds :
             DeleteTask(id) =>
                 IF NoTaskHas(Tasks, id) THEN disk' = disk
                 ELSE /\ DOMAIN disk' = DOMAIN disk \ {TaskFileName(id)}
                      /\ \A n \in DOMAIN disk' : disk'[n] = disk[n]]_vars

\* DeleteTask("1") has removed 1.json; task 2 has lost its link to task 1 in
\* memory and still has it in 2.json.
C8_Witness ==
    /\ ret.op = "DeleteTask"
    /\ ret.err = ""
    /\ ret.id = <<"1">>
    /\ TaskFileName(<<"1">>) \notin DOMAIN disk
    /\ Len(Tasks) = 1
    /\ Tasks[1].BlockedBy = <<>>
    /\ IsFile(disk, TaskFileName(<<"2">>))
    /\ UnmarshalTask(disk[TaskFileName(<<"2">>)].data).task.BlockedBy
          = <<<<"1">>>>

Count(seq, x) == Cardinality({i \in 1..Len(seq) : seq[i] = x})

AscendingIds(tasks) ==
    \A i, j \in 1..Len(tasks) :
        i < j => IdKey(tasks[i].ID) <= IdKey(tasks[j].ID)

\* The entries that hold a task for LoadTasks, spelled out: a regular file,
\* its name not starting with '_' and ending in ".json", its text parsable.
HoldsTask(d, n) ==
    /\ d[n].kind = "file"
    /\ n[1] # "_"
    /\ Len(n) >= 5
    /\ [i \in 1..5 |-> n[Len(n) - 5 + i]] = <<".", "j", "s", "o", "n">>
    /\ d[n].data.json

\* C9: LoadTasks of an existing directory returns without error exactly the
\* tasks parsed from the entries that hold one, each once, in ascending
\* numeric-id order with non-numeric ids counted as zero.
C9_LoadReadsTaskFiles ==
    [][(LoadTasks /\ dirExists) =>
          LET names == {n \in DOMAIN disk : HoldsTask(disk, n)}
              parsed(n) == UnmarshalTask(disk[n].data).task
          IN /\ ret'.err = ""
             /\ loaded'
             /\ Len(Tasks') = Cardinality(names)
             /\ \A n \in names :
                   Count(Tasks', parsed(n)) =
                       Cardinality({m \in names : parsed(m) = parsed(n)})
             /\ AscendingIds(Tasks')]_vars

\* LoadTasks has read a, 2 and 10 out of a directory that also holds the
\* groups file, an underscore file, a text file, a directory and an
\* unparsable task file.
C9_Witness ==
    /\ ret.op = "LoadTasks"
    /\ Len(Tasks) = 3
    /\ Tasks[1].ID = <<"a">>
    /\ Tasks[2].ID = <<"2">>
    /\ Tasks[3].ID = <<"1", "0">>
    /\ DOMAIN OtherEntries(1) \subseteq DOMAIN disk

\* The tasks of the parsable task files whose id no task of the collection has.
OtherTasksOnDisk(d, tasks) ==
    {ParsedTask(d, n) : n \in {m \in ParsedNames(d) :
                                  NoTaskHas(tasks, ParsedTask(d, m).ID)}}

\* C3 as claimed: after a successful Save, LoadTasks of the same directory
\* yields the saved tasks field by field in ascending numeric-id order, none
\* missing and none extra.
C3_RoundTripExact ==
    [][(Save /\ ret'.err = "") =>
          \A l \in LoadedTasks(disk') :
              /\ AscendingIds(l)
              /\ Len(l) = Len(Tasks)
              /\ \A i \in 1..Len(Tasks) : Count(l, Tasks[i]) = 1]_vars

\* C3: after a successful Save, LoadTasks of the same directory yields every
\* saved task field by field, once, in ascending numeric-id order; the tasks
\* it yields besides are those of the parsable task files that were in the
\* directory before Save under an id that no task of the store has.
C3_RoundTripKeepsSaved ==
    [][(Save /\ ret'.err = "") =>
          \A l \in LoadedTasks(disk') :
              /\ AscendingIds(l)
              /\ \A i \in 1..Len(Tasks) : Count(l, Tasks[i]) = 1
              /\ Range(l) = Range(Tasks) \cup OtherTasksOnDisk(disk, Tasks)
              /\ Len(l) = Cardinality(Range(l))]_vars

\* Save has written an edited task 2 into a directory that holds the file
\* of a task the store does not have.
C3_Witness ==
    /\ ret.op = "Save"
    /\ ret.err = ""
    /\ Len(Tasks) >= 2
    /\ \E i \in 1..Len(Tasks) :
          /\ Tasks[i].Subject = "Edited"
          /\ IsFile(disk, TaskFileName(Tasks[i].ID))
          /\ UnmarshalTask(disk[TaskFileName(Tasks[i].ID)].data).task = Tasks[i]
    /\ OtherTasksOnDisk(disk, Tasks) # {}

\* C10: LoadTasks of a project whose directory does not exist returns an
\* empty TaskStore and no error, and LoadGroups without a groups file returns
\* an empty GroupStore and no error.
C10_MissingLoadsEmpty ==
    [][/\ (LoadTasks /\ ~dirExists) =>
             ret'.err = "" /\ loaded' /\ Tasks' = <<>>
       /\ (LoadGroups /\ (~dirExists \/ GroupsFileName \notin DOMAIN disk)) =>
             ret'.err = "" /\ gLoaded' /\ Groups' = <<>>]_vars

\* Both stores have been loaded for a project that has no directory.
C10_Witness ==
    /\ ~dirExists
    /\ loaded
    /\ Tasks = <<>>
    /\ gLoaded
    /\ Groups = <<>>
    /\ ret.op = "LoadGroups"
    /\ ret.err = ""

\* C11: TaskStore.NeedsReload is true exactly when the store has a cached
\* path, the directory can be stat'ed and its modification time is later than
\* the one captured at the last load; GroupStore.NeedsReload is the same for
\* the groups file.
C11_NeedsReloadComparesTimes ==
    /\ NeedsReload(projectDir, lastModTime, dirExists, dirMod)
          = (projectDir # "" /\ dirExists /\ dirMod > lastModTime)
    /\ GroupNeedsReload(filePath, gLastModTime, dirExists, disk)
          = (/\ filePath # ""
             /\ dirExists
             /\ GroupsFileName \in DOMAIN disk
             /\ disk[GroupsFileName].mtime > gLastModTime)

\* Both stores are loaded and both are older than what is on disk.
C11_Witness ==
    /\ loaded
    /\ gLoaded
    /\ lastModTime > 0
    /\ NeedsReload(projectDir, lastModTime, dirExists, dirMod)
    /\ GroupNeedsReload(filePath, gLastModTime, dirExists, disk)

\* The stores after the step are ones a load of the directory returns.
FreshlyLoaded ==
    /\ \E t \in StoresOfLoadTasks(disk, dirExists, dirMod, backup, backupOK,
                                  clock) :
          /\ loaded'
          /\ Tasks' = t.Tasks
          /\ lastModTime' = t.lastModTime
    /\ \E g \in StoresOfLoadGroups(disk, dirExists) :
          /\ gLoaded' = ~g.nil
          /\ Groups' = g.Groups
          /\ gLastModTime' = g.lastModTime

\* A project is open and one of its stores is older than the disk.
Stale ==
    /\ loaded
    /\ \/ NeedsReload(projectDir, lastModTime, dirExists, dirMod)
       \/ gLoaded /\ GroupNeedsReload(filePath, gLastModTime, dirExists, disk)

\* The step has answered a key.
KeyAnswered == ret'.op \in {"KeyMsg", "KeyMsg reload"}

\* C12 as stated: a key that reaches the current screen while the data on
\* disk is newer than the snapshot finds both stores freshly loaded.
C12_KeyReloadsStale ==
    [][(Stale /\ KeyAnswered /\ KeyMsg("end")) => FreshlyLoaded]_vars

\* C12: a key that reaches the current screen while the data on disk is
\* newer than the snapshot finds both stores freshly loaded, unless the
\* screen is the task edit, groups or group edit screen, where the stores
\* stay as they are.
C12_KeyReloadsOffEditScreens ==
    [][(Stale /\ KeyAnswered /\ KeyMsg("end")) =>
          IF screen \in EditScreens
          THEN UNCHANGED <<taskVars, groupVars>>
          ELSE FreshlyLoaded]_vars

\* A key has made the detail screen's session load stores that were written
\* after the snapshot was taken.
C12_Witness ==
    /\ ret.op = "KeyMsg reload"
    /\ screen = "ScreenDetail"
    /\ lastModTime > 1
    /\ gLoaded
    /\ Groups = ExternalGroups

(***************************************************************************)
(* Claims about the group store.                                           *)
(***************************************************************************)
\* The positions of the groups with the name.
PositionsOf(groups, name) == {i \in 1..Len(groups) : groups[i].Name = name}

\* The step leaves the record of that operation with that name.
Did(op, name) == gret'.op = op /\ gret'.name = name

JustMoved(op, name, i, j) ==
    /\ gret.op = op
    /\ gret.name = name
    /\ gret.ok
    /\ i \in 2..(Len(gret.before) - 1)
    /\ Groups \in MovedGroups(gret.before, i, j)

\* The orders differ from group to group.
DistinctOrders(groups) ==
    \A i, j \in 1..Len(groups) : i # j => groups[i].Order # groups[j].Order

\* The collection a move undoes: held in ascending order of distinct orders,
\* with the name on one group only.
Ordered(groups, name) ==
    /\ DistinctOrders(groups)
    /\ IsSortedByOrder(groups)
    /\ Cardinality(PositionsOf(groups, name)) = 1

(* C14 as stated: when MoveGroupUp has moved a group that was neither first *)
(* nor last, MoveGroupDown with the same name puts every group back at the  *)
(* position it had before, and so does MoveGroupUp after MoveGroupDown.     *)
C14_MovesUndoEachOther ==
    [][\A name \in GroupNames :
          /\ (/\ LET i == MoveUpIndex(gret.before, name)
                 IN JustMoved("MoveGroupUp", name, i, i - 1)
              /\ Did("MoveGroupDown", name)
              /\ MoveGroupDown(name))
                => Groups' = gret.before
          /\ (/\ LET i == MoveDownIndex(gret.before, name)
                 IN JustMoved("MoveGroupDown", name, i, i + 1)
              /\ Did("MoveGroupUp", name)
              /\ MoveGroupUp(name))
                => Groups' = gret.before]_vars

(* C14, amended: in a collection held in ascending order whose orders are   *)
(* pairwise distinct, for a name that one group only has and that group     *)
(* neither first nor last, MoveGroupUp followed by MoveGroupDown with that  *)
(* name, or Down followed by Up, puts every group back at its position with *)
(* its order.                                                               *)
C14_MovesUndoEachOtherWhenOrdered ==
    [][\A name \in GroupNames :
          /\ (/\ Ordered(gret.before, name)
              /\ LET i == MoveUpIndex(gret.before, name)
                 IN JustMoved("MoveGroupUp", name, i, i - 1)
              /\ Did("MoveGroupDown", name)
              /\ MoveGroupDown(name))
                => (gret'.ok /\ Groups' = gret.before)
          /\ (/\ Ordered(gret.before, name)
              /\ LET i == MoveDownIndex(gret.before, name)
                 IN JustMoved("MoveGroupDown", name, i, i + 1)
              /\ Did("MoveGroupUp", name)
              /\ MoveGroupUp(name))
                => (gret'.ok /\ Groups' = gret.before)]_vars

\* Group2 of the test groups was moved up and then down again.
C14_Witness ==
    /\ gret.op = "MoveGroupDown"
    /\ gret.name = "Group2"
    /\ gret.ok
    /\ gret.before = <<TaskGroup("Group2", 0, "#00ff00"),
                       TaskGroup("Group1", 1, "#ff0000"),
                       TaskGroup("Group3", 2, "#0000ff")>>
    /\ Groups = TestGroups

\* The greatest order among the groups of a store that has groups.
GreatestOrder(groups) ==
    CHOOSE m \in {groups[i].Order : i \in 1..Len(groups)} :
        \A i \in 1..Len(groups) : groups[i].Order <= m

\* The collection grew by one group at its end, with that name and order.
Appended(before, after, name, order) ==
    /\ Len(after) = Len(before) + 1
    /\ SubSeq(after, 1, Len(before)) = before
    /\ after[Len(after)].Name = name
    /\ after[Len(after)].Order = order

(* C15 as stated: AddGroup on a store that has groups appends the new group *)
(* with the greatest order among them plus one, whatever order the caller   *)
(* passed.                                                                  *)
C15_AddGroupOrderIsMaxPlusOne ==
    [][\A group \in PaletteAddInputs :
          (Groups # <<>> /\ Did("AddGroup", group.Name) /\ AddGroup(group))
             => Appended(Groups, Groups', group.Name,
                         GreatestOrder(Groups) + 1)]_vars

(* C15, amended: AddGroup appends the new group with order 1 when the store *)
(* is empty or none of its orders is above zero, and with the greatest      *)
(* order among the existing groups plus one otherwise, whatever order the   *)
(* caller passed.                                                           *)
C15_AddGroupOrderIsPositiveMaxPlusOne ==
    [][\A group \in PaletteAddInputs :
          (Did("AddGroup", group.Name) /\ AddGroup(group))
             => Appended(Groups, Groups', group.Name,
                         IF Groups = <<>> THEN 1
                         ELSE IF GreatestOrder(Groups) <= 0 THEN 1
                         ELSE GreatestOrder(Groups) + 1)]_vars

\* Docs, handed over with order 5, was added to the store of the group with
\* order -2, and Frontend after it.
C15_Witness ==
    /\ gret.op = "AddGroup"
    /\ Len(Groups) = 3
    /\ Groups[1] = LowGroups[1]
    /\ Groups[2].Name = "Docs" /\ Groups[2].Order = 1
    /\ Groups[3].Name = "Frontend" /\ Groups[3].Order = 2

(* C16: AddGroup of a group without a color gives it                        *)
(* DefaultColors[n mod len(DefaultColors)], n being the number of groups in *)
(* the store before the call; AddGroup of a group with a color stores that  *)
(* color as it is.                                                          *)
C16_AddGroupColor ==
    [][\A group \in PaletteAddInputs :
          (Did("AddGroup", group.Name) /\ AddGroup(group))
             => Groups'[Len(Groups')].Color =
                   IF group.Color = ""
                   THEN DefaultColors[(Len(Groups) % Len(DefaultColors)) + 1]
                   ELSE group.Color]_vars

\* An eighth group kept its color and a ninth went round the palette:
\* the store of seven took Frontend with its color and Docs without one.
C16_Witness ==
    /\ gret.op = "AddGroup"
    /\ Len(Groups) = 9
    /\ Groups[8].Name = "Frontend" /\ Groups[8].Color = "#ff0000"
    /\ Groups[9].Name = "Docs" /\ Groups[9].Color = DefaultColors[1]

(* C17: group names are a unique key: after any sequence of AddGroup,       *)
(* EnsureGroupExists, UpdateGroup, DeleteGroup, MoveGroupUp and             *)
(* MoveGroupDown on a store loaded with distinct names, no two groups of    *)
(* the store have the same name.                                            *)
C17_GroupNamesUnique ==
    \A i, j \in 1..Len(Groups) : Groups[i].Name = Groups[j].Name => i = j

(* C18: EnsureGroupExists(name) adds a group only when no group of the      *)
(* store has the name, so a second call with the same name on a store that  *)
(* was empty leaves exactly one group with it; EnsureGroupExists("")        *)
(* changes nothing.                                                         *)
C18_EnsureAddsOnce ==
    [][\A name \in EnsureNames :
          (Did("EnsureGroupExists", name) /\ EnsureGroupExists(name))
             => /\ (name = "" \/ PositionsOf(Groups, name) # {})
                      => Groups' = Groups
                /\ (name # "" /\ PositionsOf(Groups, name) = {})
                      => /\ Len(Groups') = Len(Groups) + 1
                         /\ SubSeq(Groups', 1, Len(Groups)) = Groups
                         /\ PositionsOf(Groups', name) = {Len(Groups')}
                /\ (/\ name # ""
                    /\ gret.op = "EnsureGroupExists"
                    /\ gret.name = name
                    /\ gret.before = <<>>
                    /\ Len(Groups) = 1)
                      => /\ Groups' = Groups
                         /\ Cardinality(PositionsOf(Groups', name)) = 1]_vars

\* The store of a project without a groups file after EnsureGroupExists was
\* called with Backend a second time.
C18_Witness ==
    /\ gret.op = "EnsureGroupExists"
    /\ gret.name = "Backend"
    /\ gLastModTime = 0
    /\ Len(Groups) = 1
    /\ Groups[1].Name = "Backend"
    /\ gret.before = Groups

\* The collection with the group at position i taken out.
Without(groups, i) == [k \in 1..(Len(groups) - 1) |->
                          IF k < i THEN groups[k] ELSE groups[k + 1]]

(* C19: UpdateGroup(name, g) and DeleteGroup(name) return true and replace, *)
(* respectively remove, the group with the name (the first one that has it) *)
(* when there is one, leaving the other groups and their relative order as  *)
(* they were; when no group has the name they return false and leave the    *)
(* collection as it was.                                                    *)
C19_UpdateDeleteByName ==
    [][/\ \A name \in GroupNames, updated \in GroupUpdates :
             (Did("UpdateGroup", name) /\ UpdateGroup(name, updated))
                => IF PositionsOf(Groups, name) = {}
                   THEN ~gret'.ok /\ Groups' = Groups
                   ELSE LET i == CHOOSE p \in PositionsOf(Groups, name) :
                                    \A q \in PositionsOf(Groups, name) : p <= q
                        IN /\ gret'.ok
                           /\ Len(Groups') = Len(Groups)
                           /\ Groups'[i] = updated
                           /\ \A k \in 1..Len(Groups) :
                                 k # i => Groups'[k] = Groups[k]
       /\ \A name \in GroupNames :
             (Did("DeleteGroup", name) /\ DeleteGroup(name))
                => IF PositionsOf(Groups, name) = {}
                   THEN ~gret'.ok /\ Groups' = Groups
                   ELSE LET i == CHOOSE p \in PositionsOf(Groups, name) :
                                    \A q \in PositionsOf(Groups, name) : p <= q
                        IN gret'.ok /\ Groups' = Without(Groups, i)]_vars

\* Group2 was replaced where it stood, between two groups.
C19_Witness ==
    /\ gret.op = "UpdateGroup"
    /\ gret.name = "Group2"
    /\ gret.ok
    /\ Len(Groups) = 3
    /\ Groups[1] = TestGroups[1]
    /\ Groups[2] = TaskGroup("Group2", 1, "#10b981")
    /\ Groups[3] = TestGroups[3]

(* C20: GetGroupColor(name) returns the color stored with the group of that *)
(* name (the first one that has it), and "#6b7280" for a name no group of   *)
(* the store has; it does not fail and it changes nothing in the store.     *)
C20_GetGroupColor ==
    [][\A name \in GroupNames \cup {"Backend"} :
          (Did("GetGroupColor", name) /\ GetGroupColor(name))
             => /\ gret'.color =
                      IF PositionsOf(Groups, name) = {} THEN "#6b7280"
                      ELSE Groups[CHOOSE p \in PositionsOf(Groups, name) :
                                     \A q \in PositionsOf(Groups, name) :
                                        p <= q].Color
                /\ UNCHANGED <<groupVars, fsVars>>]_vars

\* The store holds Backend with a default color and was asked for the color
\* of a name it does not have.
C20_Witness ==
    /\ gret.op = "GetGroupColor"
    /\ gret.name = "Unregistered"
    /\ gret.color = "#6b7280"
    /\ PositionsOf(Groups, "Backend") # {}
    /\ PositionsOf(Groups, "Unregistered") = {}

(***************************************************************************)
(* Claims about the queries of the task store.                             *)
(***************************************************************************)
\* Two characters that are the same letter, in small or in capital.
SameLetter(a, b) ==
    \/ a = b
    \/ \E k \in 1..26 : {a, b} = {UpperChars[k], LowerChars[k]}

\* The text has the query in it somewhere, whatever the case of the letters.
HasIgnoringCase(text, query) ==
    \E i \in 0..(Len(text) - Len(query)) :
       \A k \in 1..Len(query) : SameLetter(text[i + k], query[k])

\* The tasks at the kept positions, in the order of the store.
RECURSIVE Kept(_, _, _)
Kept(tasks, keep, i) ==
    IF i > Len(tasks) THEN <<>>
    ELSE (IF i \in keep THEN <<tasks[i]>> ELSE <<>>) \o Kept(tasks, keep, i + 1)

\* C21: SearchTasks("") returns every task of the store; SearchTasks(q)
\* returns, in the order of the store, exactly the tasks whose subject or
\* description has q in it, whatever the case of the letters.
C21_SearchTasks ==
    ret.op = "SearchTasks" =>
       /\ ret.arg = <<>> => ret.val = Tasks
       /\ ret.val = Kept(Tasks,
                         {i \in 1..Len(Tasks) :
                             \/ HasIgnoringCase(Tasks[i].Subject, ret.arg)
                             \/ HasIgnoringCase(Tasks[i].Description, ret.arg)},
                         1)

\* A search for FIX in the store of five tasks has returned the task with
\* Fix in its subject and the one with FIX in its description.
C21_Witness ==
    /\ ret.op = "SearchTasks"
    /\ ret.arg = <<"F", "I", "X">>
    /\ Len(Tasks) = 5
    /\ [i \in 1..Len(ret.val) |-> ret.val[i].ID] = <<(<<"1">>), (<<"2">>)>>

\* C22: GetTasksByStatus("all") and GetTasksByStatus("") return every task
\* of the store; with another status it returns, in the order of the store,
\* exactly the tasks with that status; the store stays as it is.
C22_GetTasksByStatus ==
    [][ret'.op = "GetTasksByStatus" =>
          /\ UNCHANGED <<fsVars, taskVars>>
          /\ ret'.val = IF ret'.arg \in {"", "all"} THEN Tasks
                        ELSE Kept(Tasks,
                                  {i \in 1..Len(Tasks) :
                                      Tasks[i].Status = ret'.arg}, 1)]_vars

\* The store of five tasks has been asked for the completed ones and has
\* returned the two of them.
C22_Witness ==
    /\ ret.op = "GetTasksByStatus"
    /\ ret.arg = "completed"
    /\ Len(Tasks) = 5
    /\ [i \in 1..Len(ret.val) |-> ret.val[i].ID] = <<(<<"2">>), (<<"4">>)>>

(***************************************************************************)
(* Claims about the errors of Save.                                        *)
(***************************************************************************)
\* The positions of the tasks whose file name is taken by a directory, which
\* os.WriteFile cannot write over.
Unwritable == {i \in 1..Len(Tasks) : LET n == TaskFileName(Tasks[i].ID)
                                     IN n \in DOMAIN disk /\ disk[n].kind = "dir"}

C23_MkdirFailed == ret.op = "Save" /\ ret.err = "mkdir failed" /\ Tasks # <<>>

\* Save has failed on a task file it could not write.
C23_WriteFailed == ret.op = "Save" /\ ret.err = "write failed"

(***************************************************************************)
(* Claims about the rows of the task list.                                 *)
(***************************************************************************)
\* The group a task is listed under: the group of its metadata, and
\* Uncategorized for a task that has none.
ResolvedGroup(task) ==
    IF "group" \in DOMAIN task.Metadata /\ task.Metadata["group"] # ""
    THEN task.Metadata["group"] ELSE "Uncategorized"

\* The row of the nearest header at or above row i, 0 when there is none.
HeaderAbove(items, i) ==
    IF \E h \in 1..i : items[h].isGroup
    THEN CHOOSE h \in 1..i :
            items[h].isGroup /\ \A k \in (h + 1)..i : ~items[k].isGroup
    ELSE 0

\* The task rows between the header at row h and the next header.
TaskRowsAfter(items, h) ==
    {i \in (h + 1)..Len(items) : \A k \in (h + 1)..i : ~items[k].isGroup}

\* C24: every task row belongs to the nearest group header above it, and a
\* header is followed by task rows if and only if its group is not
\* collapsed.
C24_RowsUnderHeaders ==
    LET items == tasksModel.items
    IN /\ \A i \in 1..Len(items) :
             ~items[i].isGroup =>
                /\ HeaderAbove(items, i) # 0
                /\ items[HeaderAbove(items, i)].groupName
                      = ResolvedGroup(items[i].task)
       /\ \A h \in 1..Len(items) :
             items[h].isGroup =>
                (TaskRowsAfter(items, h) # {}
                    <=> items[h].groupName \notin tasksModel.collapsedGroups)

\* The list shows Frontend collapsed to its header and, right below, Backend
\* with its two tasks.
C24_Witness ==
    /\ tasksModel.collapsedGroups = {"Frontend"}
    /\ Len(tasksModel.items) >= 4
    /\ tasksModel.items[1] = GroupItem("Frontend")
    /\ tasksModel.items[2] = GroupItem("Backend")
    /\ ~tasksModel.items[3].isGroup /\ tasksModel.items[3].task.ID = <<"1">>
    /\ ~tasksModel.items[4].isGroup /\ tasksModel.items[4].task.ID = <<"4">>

\* The task passes the filters in force: the status filter, the group
\* filter, the search text and the hiding of completed tasks.
Shown(m, task) ==
    /\ m.statusFilter = "" \/ task.Status = m.statusFilter
    /\ \/ m.groupFilter = ""
       \/ "group" \in DOMAIN task.Metadata
             /\ task.Metadata["group"] = m.groupFilter
    /\ \/ m.searchInput = <<>>
       \/ HasIgnoringCase(task.Subject, m.searchInput)
       \/ HasIgnoringCase(task.Description, m.searchInput)
    /\ ~(m.hideCompleted /\ task.Status = "completed")

\* The tasks that have a row in the list.
TasksInRows(items) == {items[r].task : r \in {i \in 1..Len(items) : ~items[i].isGroup}}

\* The names on the headers of the list.
Headers(items) ==
    {items[r].groupName : r \in {i \in 1..Len(items) : items[i].isGroup}}

ShownButForGroup(m, task) == Shown([m EXCEPT !.groupFilter = ""], task)

\* C26: with the group filter on Uncategorized the list holds exactly the
\* tasks without a group in their metadata that pass the other filters,
\* under the Uncategorized header (the header alone when it is collapsed).
C26_UncategorizedFilter ==
    LET m == tasksModel
        ungrouped == {t \in {Tasks[i] : i \in 1..Len(Tasks)} :
                         /\ ResolvedGroup(t) = "Uncategorized"
                         /\ ShownButForGroup(m, t)}
    IN m.groupFilter = "Uncategorized" =>
          /\ Headers(m.items) =
                IF ungrouped = {} THEN {} ELSE {"Uncategorized"}
          /\ TasksInRows(m.items) =
                IF "Uncategorized" \in m.collapsedGroups THEN {} ELSE ungrouped

\* The names of the groups the GroupStore holds.
Registered == {Groups[i].Name : i \in 1..Len(Groups)}

\* The rows of the tasks whose metadata names a group the GroupStore does
\* not hold.
UnregisteredRows(items) ==
    {i \in 1..Len(items) :
        /\ ~items[i].isGroup
        /\ "group" \in DOMAIN items[i].task.Metadata
        /\ items[i].task.Metadata["group"] \notin Registered \cup {""}}

\* C27 as stated: a task whose metadata names a group that is not
\* registered is listed under the Uncategorized header.
C27_UnregisteredUnderUncategorized ==
    \A i \in UnregisteredRows(tasksModel.items) :
       /\ HeaderAbove(tasksModel.items, i) # 0
       /\ tasksModel.items[HeaderAbove(tasksModel.items, i)].groupName
             = "Uncategorized"

\* C27: a task whose metadata names a group that is not registered is
\* listed under a header with the name of that group, and composing the
\* list adds no group to the GroupStore or to its file.
C27_UnregisteredUnderOwnHeader ==
    [][screen' = "ScreenTasks" =>
          /\ \A i \in UnregisteredRows(tasksModel.items)' :
                /\ HeaderAbove(tasksModel.items', i) # 0
                /\ tasksModel.items'[HeaderAbove(tasksModel.items', i)].groupName
                      = tasksModel.items'[i].task.Metadata["group"]
          /\ screen = "ScreenTasks" => UNCHANGED <<Groups, disk>>
          /\ screen # "ScreenTasks" =>
                \E g \in StoresOfLoadGroups(disk, dirExists) :
                   Groups' = g.Groups /\ disk' = disk]_vars

\* After a key, the list shows the task of the group Ghost under the header
\* Ghost, and the GroupStore holds Frontend and Backend only.
C27_Witness ==
    /\ screen = "ScreenTasks"
    /\ ret.op = "KeyMsg"
    /\ Registered = {"Frontend", "Backend"}
    /\ \E h \in 1..(Len(tasksModel.items) - 1) :
          /\ tasksModel.items[h] = GroupItem("Ghost")
          /\ ~tasksModel.items[h + 1].isGroup
          /\ tasksModel.items[h + 1].task.ID = <<"3">>

\* The rows of the list that are headers.
HeaderRows(items) == {i \in 1..Len(items) : items[i].isGroup}

\* C28: the headers of the groups registered in the GroupStore appear in
\* the order of the GroupStore, and the header of every bucket that is not
\* registered, Uncategorized included, appears after all of them.
C28_HeadersInStoreOrder ==
    LET items == tasksModel.items
    IN \A h1, h2 \in HeaderRows(items) :
          h1 < h2 =>
             /\ items[h1].groupName \in Registered
                   /\ items[h2].groupName \in Registered
                => \E i, j \in 1..Len(Groups) :
                      /\ i < j
                      /\ Groups[i].Name = items[h1].groupName
                      /\ Groups[j].Name = items[h2].groupName
             /\ items[h1].groupName \notin Registered
                => items[h2].groupName \notin Registered

\* The list shows Frontend and Backend in the order of the GroupStore,
\* although the store of tasks has a Backend task first, and after them
\* the two buckets that are not registered.
C28_Witness ==
    /\ Len(Groups) = 2 /\ Groups[1].Name = "Frontend"
    /\ Len(Tasks) = 5 /\ GetTaskGroup(Tasks[1]) = "Backend"
    /\ Cardinality(HeaderRows(tasksModel.items)) = 4
    /\ [i \in 1..4 |-> tasksModel.items[
           CHOOSE h \in HeaderRows(tasksModel.items) :
              Cardinality({k \in HeaderRows(tasksModel.items) : k <= h}) = i
        ].groupName]
          = <<"Frontend", "Backend", "Uncategorized", "Ghost">>

(***************************************************************************)
(* Claims about the cursor of the task list.                               *)
(***************************************************************************)
\* The cursor is on a row of the list, and 0 when the list has no rows.
InRange(m) ==
    IF m.items = <<>> THEN m.cursor = 0
    ELSE m.cursor \in 0..(Len(m.items) - 1)

\* The task list gets a key in its normal mode, the stores being fresh.
ListGetsKey ==
    /\ screen = "ScreenTasks"
    /\ ~tasksModel.searchActive
    /\ ~tasksModel.statusChangeMode
    /\ ret'.op = "KeyMsg"

\* C29: after every step of the session (cursor keys, a filter change, a
\* group folded or unfolded, a status change, a reload) the cursor is on a
\* row of the list, or 0 when the list has no rows; up at the first row and
\* down at the last row leave it where it is.
C29_CursorInRange ==
    [][/\ InRange(tasksModel')
       /\ (ListGetsKey /\ tasksModel.cursor = 0 /\ KeyMsg("up"))
             => tasksModel'.cursor = 0
       /\ (ListGetsKey /\ tasksModel.cursor >= Len(tasksModel.items) - 1
              /\ KeyMsg("down"))
             => tasksModel'.cursor = tasksModel.cursor]_vars

\* With a task completed by a status change and the completed tasks hidden
\* afterwards, the cursor stands on the last row of the shorter list.
C29_Witness ==
    /\ screen = "ScreenTasks"
    /\ ret.op = "KeyMsg"
    /\ tasksModel.hideCompleted
    /\ \E k \in 1..Len(Tasks) :
          Tasks[k].ID = <<"3">> /\ Tasks[k].Status = "completed"
    /\ Len(tasksModel.items) >= 2
    /\ tasksModel.cursor = Len(tasksModel.items) - 1

\* The id of the task under the cursor, <<>> when the cursor is on no task.
TaskUnderCursor(m) ==
    IF OnTaskRow(m) THEN m.items[m.cursor + 1].task.ID ELSE <<>>

\* The step loads the stores again for the task list: a key that the list
\* has no binding for arrives while the directory is newer than the
\* stores, or the detail screen hands back to the list.
ReloadsForList ==
    \/ screen = "ScreenTasks" /\ ret'.op = "KeyMsg reload" /\ KeyMsg("x")
    \/ ret'.op = "BackToTasksMsg"

\* C30: whenever the session loads the stores again while the cursor of the
\* list is on a task row, and the loaded store still has a task with that
\* id, the cursor is afterwards on the row of that task, and the filters
\* and the collapsed groups are the ones in force before.
C30_ReloadKeepsCursor ==
    [][(/\ ReloadsForList
        /\ OnTaskRow(tasksModel)
        /\ \E k \in 1..Len(Tasks') : Tasks'[k].ID = TaskUnderCursor(tasksModel))
          => /\ TaskUnderCursor(tasksModel') = TaskUnderCursor(tasksModel)
             /\ tasksModel'.statusFilter = tasksModel.statusFilter
             /\ tasksModel'.groupFilter = tasksModel.groupFilter
             /\ tasksModel'.hideCompleted = tasksModel.hideCompleted
             /\ tasksModel'.searchInput = tasksModel.searchInput
             /\ tasksModel'.collapsedGroups = tasksModel.collapsedGroups]_vars

(***************************************************************************)
(* C31 .. C40.                                                             *)
(***************************************************************************)
\* The task list answers the key itself: it is the screen, nothing is
\* typed into a search and no status is being chosen.
ListAnswers == 
    /\ screen = "ScreenTasks"
    /\ ~tasksModel.searchActive
    /\ ~tasksModel.statusChangeMode

\* The status filter that follows f in show-all, pending, in_progress,
\* completed and show-all again.
NextStatusFilter(f) ==
    CASE f = "" -> "pending"
      [] f = "pending" -> "in_progress"
      [] f = "in_progress" -> "completed"
      [] OTHER -> ""

\* The group filter steps from from to to: from show-all to the first
\* registered group, from each registered group to the one after it, from
\* the last one to "Uncategorized" and from there back to show-all.
GroupFilterSteps(groups, from, to) ==
    /\ from = "" =>
          to = IF groups = <<>> THEN "Uncategorized" ELSE groups[1].Name
    /\ \A i \in 1..Len(groups) :
          groups[i].Name = from =>
             to = IF i < Len(groups) THEN groups[i + 1].Name
                  ELSE "Uncategorized"
    /\ from = "Uncategorized" => to = ""

\* C31: each press of f on the task list moves the status filter one step
\* through show-all, pending, in_progress, completed (so that the fourth
\* press brings back the first value), and each press of g moves the group
\* filter one step through show-all, the registered groups in the order of
\* the GroupStore, "Uncategorized" and back to show-all.
C31_FiltersCycle ==
    [][/\ (ListAnswers /\ ret'.op = "KeyMsg" /\ KeyMsg("f")) =>
             tasksModel'.statusFilter = NextStatusFilter(tasksModel.statusFilter)
       /\ (ListAnswers /\ ret'.op = "KeyMsg" /\ KeyMsg("g")) =>
             GroupFilterSteps(Groups, tasksModel.groupFilter,
                              tasksModel'.groupFilter)]_vars

(***************************************************************************)
(* Claims about the task list when it is created.                          *)
(***************************************************************************)
\* The task list was created by the step just taken, or stands as created.
Created(r) == r.op = "SelectProjectMsg" /\ r.err = ""

\* C32: a newly created task list has hide-completed on and every group
\* collapsed: it shows no completed task and only header rows, each of a
\* collapsed group, and the first Enter on a header expands that group.
C32_StartsCollapsed ==
    [][/\ (Created(ret') /\ SelectProjectMsg) =>
             /\ tasksModel'.hideCompleted
             /\ \A i \in 1..Len(tasksModel'.items) :
                   /\ tasksModel'.items[i].isGroup
                   /\ tasksModel'.items[i].groupName
                         \in tasksModel'.collapsedGroups
       /\ (/\ Created(ret) /\ ret'.op = "KeyMsg"
           /\ tasksModel.items # <<>>
           /\ tasksModel.items[tasksModel.cursor + 1].isGroup
           /\ KeyMsg("enter")) =>
             tasksModel.items[tasksModel.cursor + 1].groupName
                \notin tasksModel'.collapsedGroups]_vars

(***************************************************************************)
(* Claims about the form of a task.                                        *)
(***************************************************************************)
\* The text is empty or holds nothing but white space.
Blank(text) == \A i \in 1..Len(text) : text[i] \in WhiteSpace

\* C33: when save is requested in the form with a subject that is empty or
\* only white space, no task is added or updated in the store, nothing is
\* written to the directory or the mirror, and no TaskSavedMsg follows: the
\* form stays open.
C33_EmptySubjectRejected ==
    [][(/\ screen = "ScreenEdit"
        /\ Blank(editModel.subjectInput)
        /\ EditKeyMsg("ctrl+s")) =>
          /\ Tasks' = Tasks
          /\ disk' = disk /\ dirMod' = dirMod /\ backup' = backup
          /\ ret'.op # "EditModel.save"
          /\ ~ENABLED TaskSavedMsg
          /\ screen' = "ScreenEdit"]_vars

\* Save was asked for in the form of a task of the store whose subject the
\* user had replaced by spaces.
C33_Witness ==
    /\ screen = "ScreenEdit"
    /\ ret.op = "EditModel.save nil"
    /\ ~editModel.isNew
    /\ editModel.subjectInput = <<" ", " ">>

\* The task of the store that the form was opened for.
TaskInForm == Tasks[IndexOfID(Tasks, editModel.task.ID)]

\* C40: saving the form of a task of the store without having touched the
\* status selector or the group selector leaves the status and the group
\* of the task as they were, whatever they are.
C40_SaveKeepsStatusAndGroup ==
    [][(/\ screen = "ScreenEdit"
        /\ ~editModel.isNew
        /\ editModel.focusIdx = 0
        /\ IndexOfID(Tasks, editModel.task.ID) # 0
        /\ ~Blank(editModel.subjectInput)
        /\ EditKeyMsg("ctrl+s")) =>
          LET i == IndexOfID(Tasks', editModel.task.ID)
          IN /\ i # 0
             /\ Tasks'[i].Status = TaskInForm.Status
             /\ GetTaskGroup(Tasks'[i]) = GetTaskGroup(TaskInForm)]_vars

(***************************************************************************)
(* Claims about the group management screen.                               *)
(***************************************************************************)
\* The group but for its order, which a move exchanges.
Apart(g) == <<g.Name, g.Color>>

\* The key moves the group at cursor c by d positions: the group and its
\* neighbour change places, the others stay, and the cursor follows.
MovesBy(c, d) ==
    /\ groupsModel'.cursor = c + d
    /\ Len(Groups') = Len(Groups)
    /\ \A i \in 1..Len(Groups) :
          Apart(Groups'[i]) =
             Apart(Groups[IF i = c + 1 THEN c + d + 1
                          ELSE IF i = c + d + 1 THEN c + 1 ELSE i])

\* J or K is pressed on the group management screen.
MoveKey(key) ==
    /\ screen = "ScreenGroups"
    /\ ~groupsModel.confirmDelete
    /\ Groups # <<>>
    /\ GroupsKeyMsg(key)

\* What C34 says of a step of J or K; movedBefore restricts what it says of
\* a move after the opposite move.
MoveSteps(movedBefore) ==
    /\ MoveKey("J") =>
          IF groupsModel.cursor = Len(Groups) - 1
          THEN Groups' = Groups /\ groupsModel'.cursor = groupsModel.cursor
          ELSE MovesBy(groupsModel.cursor, 1)
    /\ MoveKey("K") =>
          IF groupsModel.cursor = 0
          THEN Groups' = Groups /\ groupsModel'.cursor = groupsModel.cursor
          ELSE MovesBy(groupsModel.cursor, -1)
    /\ \A keys \in {<<"J", "K">>, <<"K", "J">>} :
          (/\ gret.op = "GroupsKeyMsg" /\ gret.name = keys[1]
           /\ movedBefore
           /\ MoveKey(keys[2])) =>
             /\ Groups' = gret.before
             /\ groupsModel'.cursor = gret.cursor

(* C34 as stated: J moves the group under the cursor one position down and *)
(* K one position up, the cursor ending on that group; J on the last group *)
(* and K on the first change neither the groups nor the cursor; a move     *)
(* down followed by a move up (the case n = 1) restores the groups and the *)
(* cursor.                                                                 *)
C34_MovesFollowCursor == [][MoveSteps(TRUE)]_vars

\* The groups are held in ascending order of pairwise distinct orders and
\* no two of them have one name.
Tidy(groups) ==
    /\ \A i \in 1..(Len(groups) - 1) : groups[i].Order < groups[i + 1].Order
    /\ \A i, j \in 1..Len(groups) : groups[i].Name = groups[j].Name => i = j

(* C34, amended: over groups held in ascending order of pairwise distinct  *)
(* orders and with pairwise distinct names, J moves the group under the    *)
(* cursor one position down and K one position up, the cursor ending on    *)
(* that group; J on the last group and K on the first change nothing; and  *)
(* a J that moved a group followed by K, or a K that moved a group         *)
(* followed by J, restores the groups and the cursor.                      *)
C34_MovesFollowCursorWhenTidy ==
    [][Tidy(Groups) => MoveSteps(gret.ok)]_vars

\* Group1 of the test groups was moved down twice and is the last group,
\* under the cursor.
C34_Witness ==
    /\ screen = "ScreenGroups"
    /\ gret.op = "GroupsKeyMsg" /\ gret.name = "J" /\ gret.ok
    /\ Tidy(Groups)
    /\ groupsModel.cursor = 2
    /\ Apart(Groups[3]) = Apart(TestGroups[1])
    /\ Apart(gret.before[2]) = Apart(TestGroups[1])

(***************************************************************************)
(* Claims about the quick status change of the task list.                  *)
(***************************************************************************)
\* The status the claim gives to a key of the status change mode.
QuickStatus(key) ==
    IF key \in {"p", "1"} THEN "pending"
    ELSE IF key \in {"i", "2"} THEN "in_progress" ELSE "completed"

\* The store after the step holds the tasks it held, the task with the id
\* having the status.
OnlyStatusSet(id, status) ==
    /\ Len(Tasks') = Len(Tasks)
    /\ \A i \in 1..Len(Tasks) :
          Tasks'[i] = IF Tasks[i].ID = id
                      THEN [Tasks[i] EXCEPT !.Status = status] ELSE Tasks[i]

\* C35: s with the cursor on the row of a task enters the status change
\* mode, and s on a group header does not; in the mode each of p, i, c, 1,
\* 2, 3 sets the status of that task in the store to pending, in_progress
\* or completed, saves the task to its file and leaves the mode, and esc
\* leaves the mode with the store and the files as they were.
C35_QuickStatusChange ==
    [][/\ (ListGetsKey /\ KeyMsg("s")) =>
             /\ tasksModel'.statusChangeMode = OnTaskRow(tasksModel)
             /\ Tasks' = Tasks /\ disk' = disk
       /\ \A key \in {"p", "i", "c", "1", "2", "3"} :
             (/\ screen = "ScreenTasks" /\ tasksModel.statusChangeMode
              /\ ret'.op = "KeyMsg"
              /\ KeyMsg(key)) =>
                LET id == tasksModel.items[tasksModel.cursor + 1].task.ID
                IN /\ ~tasksModel'.statusChangeMode
                   /\ OnlyStatusSet(id, QuickStatus(key))
                   /\ \E i \in 1..Len(Tasks') :
                         /\ Tasks'[i].ID = id
                         /\ disk'[TaskFileName(id)].data = MarshalTask(Tasks'[i])
       /\ (/\ screen = "ScreenTasks" /\ tasksModel.statusChangeMode
           /\ ret'.op = "KeyMsg"
           /\ KeyMsg("esc")) =>
             /\ ~tasksModel'.statusChangeMode
             /\ Tasks' = Tasks /\ disk' = disk]_vars

\* The first task, pending when the project was selected, is in progress in
\* the store and in its file, and the list has left the mode.
C35_Witness ==
    /\ screen = "ScreenTasks"
    /\ ret.op = "KeyMsg"
    /\ ~tasksModel.statusChangeMode
    /\ Len(Tasks) = 3
    /\ Tasks[1].ID = <<"1">> /\ Tasks[1].Status = "in_progress"
    /\ disk[TaskFileName(<<"1">>)].data = MarshalTask(Tasks[1])

(***************************************************************************)
(* Claims about the orders of the groups.                                  *)
(***************************************************************************)
\* C36: in a store loaded from a file whose orders are pairwise distinct,
\* after any sequence of AddGroup, EnsureGroupExists, DeleteGroup,
\* MoveGroupUp and MoveGroupDown the orders are pairwise distinct and the
\* groups are held in ascending order of them.
C36_OrdersStayDistinctAndSorted ==
    gLoaded =>
       /\ \A i, j \in 1..Len(Groups) :
             Groups[i].Order = Groups[j].Order => i = j
       /\ \A i \in 1..(Len(Groups) - 1) :
             Groups[i].Order <= Groups[i + 1].Order

\* After a group was deleted and another added behind the greatest order, a
\* group was moved down in a store of three.
C36_Witness ==
    /\ gLoaded
    /\ gret.op = "MoveGroupDown" /\ gret.ok
    /\ Len(Groups) = 3
    /\ \E i \in 1..3 : Groups[i].Name = "Backend"
    /\ Groups # gret.before

(***************************************************************************)
(* Claims about a session next to another process.                         *)
(***************************************************************************)
\* The task files whose content the step changes.
RewrittenFiles ==
    {n \in DOMAIN disk \cap DOMAIN disk' :
        IsTaskFile(disk, n) /\ disk'[n].data # disk[n].data}

\* C37: no step of the session overwrites the file of a task the user did
\* not edit with another content, so that what another process wrote into
\* the file since the session's last load stays: a quick status change
\* changes no task file but the file of the task under the cursor.
C37_NoLostUpdate ==
    [][external' = external =>
          \A n \in RewrittenFiles :
             /\ screen = "ScreenTasks"
             /\ OnTaskRow(tasksModel)
             /\ n = TaskFileName(
                       tasksModel.items[tasksModel.cursor + 1].task.ID)]_vars

\* C38: the task store that the active screen model mutates is the App's
\* current task store: on the detail screen, also after a reload, the store
\* of the DetailModel is the store the App holds, so that a status cycle or
\* a delete acts on the tasks that were loaded last.
C38_ActiveStoreIsCurrent ==
    screen = "ScreenDetail" => (~detailModel.stale /\ detailModel.taskStore = Tasks)

\* C39: in the rows of the task list each group name has at most one header
\* row and each task id at most one task row, whatever was done to the
\* groups on the group management screen.
C39_RowsAreUnique ==
    screen = "ScreenTasks" =>
        \A i, j \in 1..Len(tasksModel.items) :
            LET a == tasksModel.items[i]
                b == tasksModel.items[j]
            IN /\ a.isGroup /\ b.isGroup /\ a.groupName = b.groupName => i = j
               /\ ~a.isGroup /\ ~b.isGroup /\ a.task.ID = b.task.ID => i = j

====
